---- MODULE Spec2Model ----
(***************************************************************************)
(* The widget-tree document engine of pygubu-designer: WidgetsTreeEditor   *)
(* (uitreeeditor.py) driving a ttk.Treeview, and the parts of              *)
(* PygubuDesigner (main.py) it calls back into.                            *)
(*                                                                         *)
(* Strings are sequences of atoms ("tk", ".", "Frame", "1", ...); an atom  *)
(* stands for a run of characters that no operation of the editor splits.  *)
(* Item ids of the treeview are 1..MaxIds, the root item '' is 0.          *)
(***************************************************************************)
EXTENDS Integers, Sequences, FiniteSets, TLC

\* ---------------------------------------------------------------- bounds
\* the items the user adds, pastes and duplicates get the ids 1..MaxItems; the
\* items of a file that is loaded may take the ids up to MaxIds
MaxItems == 3
MaxIds == 6
MaxSel == 2
\* the keys move a widget down to the row MaxRow and right to the column MaxRow
\* at most; add_widget places widgets on the rows up to MaxItems - 1, from which
\* the keys move them up
MaxRow == 0

\* ---------------------------------------------------------------- strings
Root == 0
Iids == 1..MaxIds
Nodes == 0..MaxIds

EmptyStr == <<>>

LowerAtom(a) ==
    CASE a = "Frame" -> "frame"
      [] a = "Button" -> "button"
      [] a = "Menu" -> "menu"
      [] a = "Menuitem" -> "menuitem"
      [] a = "Command" -> "command"
      [] a = "Bogus" -> "bogus"
      [] a = "SH" -> "sh"
      [] OTHER -> a

UpperAtom(a) ==
    CASE a = "frame" -> "Frame"
      [] a = "button" -> "Button"
      [] a = "menu" -> "Menu"
      [] a = "menuitem" -> "Menuitem"
      [] a = "command" -> "Command"
      [] a = "bogus" -> "Bogus"
      [] a = "sh" -> "SH"
      [] OTHER -> a

\* str.lower()
Lower(str) == [i \in 1..Len(str) |-> LowerAtom(str[i])]

\* str.capitalize(): first character upper case, the rest lower case
Capitalize(str) ==
    [i \in 1..Len(str) |-> IF i = 1 THEN UpperAtom(LowerAtom(str[i])) ELSE LowerAtom(str[i])]

\* a in b, for strings
IsSubstr(a, b) ==
    \E i \in 0..(Len(b) - Len(a)) : \A k \in 1..Len(a) : b[i + k] = a[k]

Digits == <<"0", "1", "2", "3", "4", "5", "6", "7", "8", "9">>

\* str(n) for a natural number n < 100
Str(n) == IF n < 10 THEN <<Digits[n + 1]>> ELSE <<Digits[(n \div 10) + 1], Digits[(n % 10) + 1]>>

RECURSIVE LastDot(_, _)
LastDot(str, i) == IF i = 0 THEN 0 ELSE IF str[i] = "." THEN i ELSE LastDot(str, i - 1)

\* classname.split('.')[-1]
LastComponent(str) == SubSeq(str, LastDot(str, Len(str)) + 1, Len(str))

\* ---------------------------------------------------------------- catalog
TkFrame == <<"tk", ".", "Frame">>
TtkButton == <<"ttk", ".", "Button">>
TkMenu == <<"tk", ".", "Menu">>
TkMenuitem == <<"tk", ".", "Menuitem", ".", "Command">>
ScrollbarHelper == <<"pygubu", ".", "SH">>
Bogus == <<"tk", ".", "Bogus">>
RootName == <<"root">>

None == {}
Some(x) == {x}

\* a class of a plugin whose builder declares allowed_parents = ()
PluginWidget == <<"plugin", ".", "Widget">>

\* a class of a plugin whose builder declares allowed_children = () and is no
\* container
PluginLeaf == <<"plugin", ".", "Leaf">>

\* a class of a plugin whose builder declares allowed_parents = ('root',) and is
\* no container
PluginTop == <<"plugin", ".", "Top">>

\* CLASS_MAP[classname].builder: the structural constraints of each known class.
\* allowed_parents, allowed_children and maxchildren are None or Some(value).
CLASS_MAP ==
    (TkFrame :> [container |-> TRUE, allowed_parents |-> None, allowed_children |-> None,
                 maxchildren |-> None, layout_required |-> TRUE,
                 tkvar_properties |-> {}, command_properties |-> {}])
 @@ (TtkButton :> [container |-> FALSE, allowed_parents |-> None, allowed_children |-> None,
                 maxchildren |-> None, layout_required |-> TRUE,
                 tkvar_properties |-> {"textvariable"}, command_properties |-> {"command"}])
 @@ (TkMenu :> [container |-> TRUE, allowed_parents |-> Some({RootName}),
                 allowed_children |-> Some({TkMenuitem}),
                 maxchildren |-> None, layout_required |-> FALSE,
                 tkvar_properties |-> {}, command_properties |-> {}])
 @@ (TkMenuitem :> [container |-> FALSE, allowed_parents |-> Some({TkMenu}),
                 allowed_children |-> None,
                 maxchildren |-> None, layout_required |-> FALSE,
                 tkvar_properties |-> {}, command_properties |-> {"command"}])
 @@ (ScrollbarHelper :> [container |-> TRUE, allowed_parents |-> None,
                 allowed_children |-> None,
                 maxchildren |-> Some(1), layout_required |-> TRUE,
                 tkvar_properties |-> {}, command_properties |-> {}])
 @@ (PluginWidget :> [container |-> TRUE, allowed_parents |-> Some({}),
                 allowed_children |-> None,
                 maxchildren |-> None, layout_required |-> TRUE,
                 tkvar_properties |-> {}, command_properties |-> {}])
 @@ (PluginLeaf :> [container |-> FALSE, allowed_parents |-> None,
                 allowed_children |-> Some({}),
                 maxchildren |-> None, layout_required |-> TRUE,
                 tkvar_properties |-> {}, command_properties |-> {}])
 @@ (PluginTop :> [container |-> FALSE, allowed_parents |-> Some({RootName}),
                 allowed_children |-> None,
                 maxchildren |-> None, layout_required |-> TRUE,
                 tkvar_properties |-> {}, command_properties |-> {}])

Classes == DOMAIN CLASS_MAP

\* the value held by Some(x)
The(opt) == CHOOSE x \in opt : TRUE

\* ---------------------------------------------------------------- state
VARIABLES
    treeview,       \* the ttk.Treeview: items, parent, children, selection, values, next id
    treedata,       \* item -> WidgetMeta
    counter,        \* classname -> count (collections.Counter)
    virtual_clipboard_for_duplicate,
    duplicating,
    duplicate_parent_iid,
    filter_on,
    filtervar,
    filter_prev_value,
    filter_prev_sitem,
    _detached,
    current_edit,
    _listen_object_updates, \* whether update_event heeds the notifications of widgets
    is_changed,             \* PygubuDesigner.is_changed
    duplicate_menu_state,   \* PygubuDesigner.duplicate_menu_state
    clipboard,              \* the CLIPBOARD selection of the display
    idle,                   \* callbacks queued with after_idle, oldest first
    pref,                   \* the preferences read with pref.get_option
    savedfile,              \* the text of the .ui file on disk
    trace                   \* observation of the last handler run (not program state)

vars == <<treeview, treedata, counter, virtual_clipboard_for_duplicate, duplicating,
          duplicate_parent_iid, filter_on, filtervar, filter_prev_value, filter_prev_sitem,
          _detached, current_edit, _listen_object_updates, is_changed, duplicate_menu_state,
          clipboard, idle, pref, savedfile, trace>>

\* The program state as one record, so that a handler is a function of states.
\* select_event: a <<TreeviewSelect>> event is queued; it is delivered when the
\* running handler returns. raised: the exception the running handler has raised.
Cur ==
    [treeview |-> treeview, treedata |-> treedata, counter |-> counter,
     virtual_clipboard_for_duplicate |-> virtual_clipboard_for_duplicate,
     duplicating |-> duplicating, duplicate_parent_iid |-> duplicate_parent_iid,
     filter_on |-> filter_on, filtervar |-> filtervar,
     filter_prev_value |-> filter_prev_value, filter_prev_sitem |-> filter_prev_sitem,
     _detached |-> _detached, current_edit |-> current_edit,
     _listen_object_updates |-> _listen_object_updates, is_changed |-> is_changed,
     duplicate_menu_state |-> duplicate_menu_state, clipboard |-> clipboard,
     idle |-> idle, pref |-> pref, savedfile |-> savedfile, trace |-> trace,
     select_event |-> FALSE, raised |-> "none"]

Commit(s) ==
    /\ treeview' = s.treeview
    /\ treedata' = s.treedata
    /\ counter' = s.counter
    /\ virtual_clipboard_for_duplicate' = s.virtual_clipboard_for_duplicate
    /\ duplicating' = s.duplicating
    /\ duplicate_parent_iid' = s.duplicate_parent_iid
    /\ filter_on' = s.filter_on
    /\ filtervar' = s.filtervar
    /\ filter_prev_value' = s.filter_prev_value
    /\ filter_prev_sitem' = s.filter_prev_sitem
    /\ _detached' = s._detached
    /\ current_edit' = s.current_edit
    /\ _listen_object_updates' = s._listen_object_updates
    /\ is_changed' = s.is_changed
    /\ duplicate_menu_state' = s.duplicate_menu_state
    /\ clipboard' = s.clipboard
    /\ idle' = s.idle
    /\ pref' = s.pref
    /\ savedfile' = s.savedfile
    /\ trace' = s.trace

\* ---------------------------------------------------------------- WidgetMeta
\* layout_properties holds the grid coordinates only: row and column, each None
\* (not set) or Some(n).
NoLayout == [row |-> None, column |-> None]

\* properties holds the two properties whose values are names: textvariable
\* (a tk variable, 'type:name' or 'name') and command (a callback).
NoProperties == [textvariable |-> None, command |-> None]

\* the entry of treedata for an item that has none
NoData == [classname |-> EmptyStr]

\* WidgetMeta(wclass, widget_id, manager, pdefaults, ldefaults)
WidgetMeta(wclass, widget_id, manager) ==
    [classname |-> wclass, identifier |-> widget_id, manager |-> manager,
     layout_properties |-> NoLayout, properties |-> NoProperties, bindings |-> <<>>]

\* data.layout_property(name): the getter; row and column default to '0'
layout_property(data, name) ==
    IF data.layout_properties[name] = None THEN 0 ELSE The(data.layout_properties[name])

\* data.layout_property(name, value): the setter
set_layout_property(data, name, value) ==
    [data EXCEPT !.layout_properties[name] = Some(value)]

\* data.manager = value: a change of manager clears the layout properties
set_manager(data, value) ==
    IF data.manager = value THEN data
    ELSE [data EXCEPT !.manager = value, !.layout_properties = NoLayout]

has_layout_defined(data) == data.layout_properties # NoLayout

layout_required(data) ==
    IF data.classname \in Classes THEN CLASS_MAP[data.classname].layout_required ELSE TRUE

\* ---------------------------------------------------------------- ttk.Treeview
NoValues == [row |-> None, column |-> None]

EmptyTreeview ==
    [items |-> {}, parent |-> [i \in Iids |-> Root], children |-> [n \in Nodes |-> <<>>],
     selection |-> {}, values |-> [i \in Iids |-> NoValues], next |-> 1]

\* the sequence q without the element x
Without(q, x) == SelectSeq(q, LAMBDA y : y # x)

\* the sequence q with x inserted after its first k elements
InsertAt(q, k, x) ==
    LET n == IF k > Len(q) THEN Len(q) ELSE k
    IN SubSeq(q, 1, n) \o <<x>> \o SubSeq(q, n + 1, Len(q))

\* the position of x in q (1-based), 0 when absent
PosIn(q, x) == IF \E i \in 1..Len(q) : q[i] = x THEN CHOOSE i \in 1..Len(q) : q[i] = x ELSE 0

Range(q) == {q[i] : i \in 1..Len(q)}

RECURSIVE Preorder(_, _)
\* the items below the sequence q of siblings, parents before children
Preorder(children, q) ==
    IF q = <<>> THEN <<>>
    ELSE <<Head(q)>> \o Preorder(children, children[Head(q)]) \o Preorder(children, Tail(q))

\* item and all its descendants
Subtree(tv, item) == Range(Preorder(tv.children, <<item>>))

\* the items linked to the root: a detached item and its descendants are not
Attached(tv) == Range(Preorder(tv.children, tv.children[Root]))

\* tree.exists(item); the root item '' exists
tv_exists(tv, item) == item = Root \/ item \in tv.items

\* tree.get_children(item)
tv_get_children(tv, item) == tv.children[item]

\* tree.parent(item): '' for a top-level item and for a detached one
tv_parent(tv, item) == IF item = Root THEN Root ELSE tv.parent[item]

\* tree.index(item): the number of siblings before item
tv_index(tv, item) ==
    LET k == PosIn(tv.children[tv.parent[item]], item) IN IF k = 0 THEN 0 ELSE k - 1

\* tree.prev(item): the previous sibling, '' when there is none
tv_prev(tv, item) ==
    LET q == tv.children[tv.parent[item]]
        k == PosIn(q, item)
    IN IF k > 1 THEN q[k - 1] ELSE Root

\* tree.next(item): the next sibling, '' when there is none
tv_next(tv, item) ==
    LET q == tv.children[tv.parent[item]]
        k == PosIn(q, item)
    IN IF k > 0 /\ k < Len(q) THEN q[k + 1] ELSE Root

\* tree.selection(): the selected items linked to the root, in tree order
tv_selection(tv) ==
    SelectSeq(Preorder(tv.children, tv.children[Root]), LAMBDA i : i \in tv.selection)

\* tree.selection_set(items): the items linked to the root lose the selected
\* state, then the given items get it
tv_selection_set(tv, items) ==
    [tv EXCEPT !.selection = (tv.selection \ Attached(tv)) \cup (items \ {Root})]

\* tree.insert(parent, 'end', values=values): the new item's id
tv_insert(tv, parent, values) ==
    LET item == tv.next
    IN [tv EXCEPT !.items = tv.items \cup {item},
                  !.parent[item] = parent,
                  !.children[parent] = Append(tv.children[parent], item),
                  !.values[item] = values,
                  !.next = tv.next + 1]

\* unlink item from its parent (DetachItem)
Unlink(tv, item) ==
    [tv EXCEPT !.children[tv.parent[item]] = Without(tv.children[tv.parent[item]], item),
               !.parent[item] = Root]

\* tree.detach(item)
tv_detach(tv, item) == Unlink(tv, item)

\* tree.move(item, parent, index): item becomes the child of parent that has
\* index other children before it (the last child when index is too large)
tv_move(tv, item, parent, index) ==
    LET u == Unlink(tv, item)
    IN [u EXCEPT !.children[parent] = InsertAt(u.children[parent], index, item),
                 !.parent[item] = parent]

\* tree.delete(item): item and its descendants cease to exist
tv_delete(tv, item) ==
    LET gone == Subtree(tv, item)
        u == Unlink(tv, item)
    IN [u EXCEPT !.items = u.items \ gone,
                 !.selection = u.selection \ gone,
                 !.parent = [i \in Iids |-> IF i \in gone THEN Root ELSE u.parent[i]],
                 !.children = [n \in Nodes |-> IF n \in gone THEN <<>> ELSE u.children[n]],
                 !.values = [i \in Iids |-> IF i \in gone THEN NoValues ELSE u.values[i]]]

\* ---------------------------------------------------------------- observation
\* set at the start of every handler
\* op: the handler; changed, draws: the calls of set_changed() and of the
\* previewer's draw it made; raised: the exception it ended with; before: the
\* treeview as it was when the filter now active was typed, or the tree whose
\* serialisation is loaded; pasted: the outer widgets of a paste as they came in;
\* arg: the class asked of add_widget; ids: the last item id the handler may use
NoSnap == [children |-> <<>>, hidden |-> {}]
StartTrace(s, op) ==
    [s EXCEPT !.trace = [op |-> op, changed |-> 0, draws |-> 0, raised |-> "none",
                         before |-> NoSnap, pasted |-> <<>>, arg |-> EmptyStr,
                         ids |-> MaxItems]]

\* the title and the flag left as they are
title_kept(s) == s

\* PygubuDesigner.set_changed()
set_changed(s) == [s EXCEPT !.is_changed = TRUE, !.trace.changed = @ + 1]

\* ---------------------------------------------------------------- filter
\* the item text set by _insert_item and kept by update_event
treelabel(data) == data.identifier \o <<": ">> \o data.classname

\* _detach looking at the item alone, not at what it holds
_detach_unmatched(s, item) ==
    LET value == s.filtervar
        txt == Lower(treelabel(s.treedata[item]))
        class_txt == Lower(s.treedata[item].classname)
        match_found == IF IsSubstr(value, txt) THEN TRUE ELSE IsSubstr(value, class_txt)
    IN [match |-> match_found,
        det |-> IF match_found THEN <<>>
                ELSE << <<item, tv_parent(s.treeview, item), tv_index(s.treeview, item)>> >>]

RECURSIVE _detach(_, _), _detach_children(_, _)
\* [match, det]: whether item or a descendant matches, and the (item, parent,
\* index) triples to detach below and including item
_detach(s, item) ==
    LET value == s.filtervar
        txt == Lower(treelabel(s.treedata[item]))
        class_txt == Lower(s.treedata[item].classname)
        match_found == IF IsSubstr(value, txt) THEN TRUE ELSE IsSubstr(value, class_txt)
        parent == tv_parent(s.treeview, item)
        idx == tv_index(s.treeview, item)
        result(found, sub) ==
            [match |-> found \/ sub.match,
             det |-> IF found THEN sub.det
                     ELSE IF sub.match THEN sub.det
                     ELSE << <<item, parent, idx>> >>]
    IN result(match_found, _detach_children(s, tv_get_children(s.treeview, item)))

\* the loop of _detach over the children of an item
_detach_children(s, q) ==
    IF q = <<>> THEN [match |-> FALSE, det |-> <<>>]
    ELSE LET both(h, r) == [match |-> h.match \/ r.match, det |-> h.det \o r.det]
         IN both(_detach(s, Head(q)), _detach_children(s, Tail(q)))

RECURSIVE ReattachLoop(_, _)
ReattachLoop(tv, q) ==
    IF q = <<>> THEN tv
    ELSE LET move(item, p, idx) ==
                 IF tv_exists(tv, item) /\ tv_exists(tv, p)
                 THEN tv_move(tv, item, p, idx) ELSE tv
         IN ReattachLoop(move(Head(q)[1], Head(q)[2], Head(q)[3]), Tail(q))

\* the sequence q, last element first
Reverse(q) == [k \in 1..Len(q) |-> q[Len(q) + 1 - k]]

\* _reatach replaying the detached items last first
_reatach_reversed(s) ==
    [s EXCEPT !.treeview = ReattachLoop(s.treeview, Reverse(s._detached)), !._detached = <<>>]

\* _reatach leaving the record of the detached items as it is
_reatach_keeping_record(s) ==
    [s EXCEPT !.treeview = ReattachLoop(s.treeview, s._detached)]

\* Reinsert the hidden items.
_reatach(s) ==
    [s EXCEPT !.treeview = ReattachLoop(s.treeview, s._detached), !._detached = <<>>]

RECURSIVE DetachLoop(_, _)
DetachLoop(tv, q) ==
    IF q = <<>> THEN tv ELSE DetachLoop(tv_detach(tv, Head(q)[1]), Tail(q))

\* filter_remove; filtervar.set('') runs filter_by('') through the variable's
\* trace, which finds nothing left to re-attach and changes nothing more
filter_remove(s, remember) ==
    IF s.filter_on
    THEN LET sitem(selection) == IF selection # <<>> THEN selection[1] ELSE Root
             remembered ==
                 IF remember
                 THEN [s EXCEPT !.filter_prev_value = s.filtervar,
                                !.filter_prev_sitem = sitem(tv_selection(s.treeview))]
                 ELSE s
             cleared(s2) == [s2 EXCEPT !.filtervar = EmptyStr, !.filter_on = FALSE]
         IN cleared(_reatach(remembered))
    ELSE s

\* filter_by leaving the selection as it is
filter_by_keeping_selection(s, string) ==
    LET collect(s2) ==
            [s2 EXCEPT !._detached =
                @ \o _detach_children(s2, tv_get_children(s2.treeview, Root)).det]
        detach(s3) == [s3 EXCEPT !.treeview = DetachLoop(@, s3._detached),
                                 !.filter_on = TRUE]
        filter(s1) == IF string = EmptyStr THEN filter_remove(s1, FALSE)
                      ELSE detach(collect(s1))
    IN filter(_reatach(s))

\* filter_by(string), run by the trace of filtervar: filtervar holds string
filter_by(s, string) ==
    LET unselect(s1) == [s1 EXCEPT !.treeview = tv_selection_set(@, {}),
                                   !.select_event = TRUE]
        collect(s2) ==
            [s2 EXCEPT !._detached =
                @ \o _detach_children(s2, tv_get_children(s2.treeview, Root)).det]
        detach(s3) == [s3 EXCEPT !.treeview = DetachLoop(@, s3._detached),
                                 !.filter_on = TRUE]
        filter(s1) == IF string = EmptyStr THEN filter_remove(s1, FALSE)
                      ELSE detach(collect(unselect(s1)))
    IN filter(_reatach(s))

\* filtervar.set(value): the write runs the trace on_filtervar_changed
filtervar_set(s, value) == filter_by([s EXCEPT !.filtervar = value], value)

\* the remembered filter forgotten, not applied again
filter_forget(s) == [s EXCEPT !.filter_prev_value = EmptyStr, !.filter_prev_sitem = Root]

filter_restore(s) ==
    IF s.filter_prev_value # EmptyStr
    THEN LET item == s.filter_prev_sitem
             reselect(s1) ==
                 IF item # Root /\ tv_exists(s1.treeview, item)
                 THEN [s1 EXCEPT !.treeview = tv_selection_set(@, {item}),
                                 !.select_event = TRUE]
                 ELSE s1
             forget(s2) == [s2 EXCEPT !.filter_prev_value = EmptyStr,
                                      !.filter_prev_sitem = Root]
         IN forget(reselect(filtervar_set(s, s.filter_prev_value)))
    ELSE s

\* ---------------------------------------------------------------- selection
\* whether the parent of a selected item is selected too
item_parent_in_selection(s) ==
    LET all_selections == tv_selection(s.treeview)
    IN \E i \in Range(all_selections) : tv_parent(s.treeview, i) \in Range(all_selections)

\* Check whether any of the selections have different parents.
selection_different_parents(s) ==
    LET all_selections == tv_selection(s.treeview)
    IN Cardinality({tv_parent(s.treeview, i) : i \in Range(all_selections)}) > 1

\* PygubuDesigner.evaluate_menu_states
evaluate_menu_states(s) ==
    [s EXCEPT !.duplicate_menu_state =
        IF selection_different_parents(s) THEN "disabled" ELSE "normal"]

\* the manager of the first child of parent other than current_item, place or not
get_first_child_manager(s, parent, current_item) ==
    LET children == tv_get_children(s.treeview, parent)
        det == {k \in 1..Len(children) : children[k] # current_item}
    IN IF det = {} THEN None
       ELSE Some(s.treedata[children[CHOOSE k \in det : \A j \in det : k <= j]].manager)

\* Get layout manager for children of item: None or Some(manager)
get_children_manager(s, parent, current_item) ==
    LET children == tv_get_children(s.treeview, parent)
        det == {k \in 1..Len(children) :
                   /\ children[k] # current_item
                   /\ s.treedata[children[k]].manager # "place"}
    IN IF det = {} THEN None
       ELSE Some(s.treedata[children[CHOOSE k \in det : \A j \in det : k <= j]].manager)

editor_edit(s, item) == [s EXCEPT !.current_edit = item]

\* the handler of <<TreeviewSelect>>
on_treeview_select(s) ==
    LET edit(sel) == IF sel # <<>> THEN editor_edit(s, sel[1]) ELSE s
    IN evaluate_menu_states(edit(tv_selection(s.treeview)))

\* the handler has returned: the queued <<TreeviewSelect>> is delivered
Dispatch(s) ==
    LET deliver(s1) ==
            IF s1.select_event THEN on_treeview_select([s1 EXCEPT !.select_event = FALSE])
            ELSE s1
    IN deliver([s EXCEPT !.trace.raised = s.raised])

\* ---------------------------------------------------------------- UI definition
\* A UIDefinition document is the sequence of its <object> nodes, parents before
\* children; up is the position of the node's parent in the document, 0 for a
\* node directly below the document root.
widget_to_xmlnode(data, up) ==
    [class |-> data.classname, id |-> data.identifier, manager |-> data.manager,
     layout |-> data.layout_properties, properties |-> data.properties,
     bind |-> data.bindings, up |-> up]

xmlnode_to_widget(node) ==
    [classname |-> node.class, identifier |-> node.id, manager |-> node.manager,
     layout_properties |-> node.layout, properties |-> node.properties,
     bindings |-> node.bind]

RECURSIVE build_uidefinition(_, _, _, _)
\* Traverses tree and build ui definition: the nodes of the items q (siblings)
\* and of their descendants, for a document that has offset nodes before them
build_uidefinition(s, q, up, offset) ==
    IF q = <<>> THEN <<>>
    ELSE LET me == offset + 1
             node == widget_to_xmlnode(s.treedata[Head(q)], up)
             children == tv_get_children(s.treeview, Head(q))
             rest(first) == first \o build_uidefinition(s, Tail(q), up, offset + Len(first))
         IN rest(<<node>> \o build_uidefinition(s, children, me, me))

\* uidef.widgets(): the positions of the top-level nodes
widgets(doc) == SelectSeq([k \in 1..Len(doc) |-> k], LAMBDA k : doc[k].up = 0)

\* uidef.widget_children(identifier): the positions of the children of the
\* first node of the document that has this id
widget_children(doc, identifier) ==
    LET hits == {k \in 1..Len(doc) : doc[k].id = identifier}
        first == CHOOSE k \in hits : \A j \in hits : k <= j
    IN IF hits = {} THEN <<>>
       ELSE SelectSeq([k \in 1..Len(doc) |-> k], LAMBDA k : doc[k].up = first)

\* the text of a document (str(uidef)), and the other texts a clipboard holds
XmlText(doc) == [kind |-> "xml", doc |-> doc]
NoText == [kind |-> "none", doc |-> <<>>]
GarbageText == [kind |-> "garbage", doc |-> <<>>]

\* Traverses treeview and generates a document: the state after it, and the document
tree_to_uidef(s, treeitem) ==
    LET items(s1) == IF treeitem = Root THEN tv_get_children(s1.treeview, Root)
                     ELSE <<treeitem>>
        build(s1) == [s |-> filter_restore(s1),
                      uidef |-> build_uidefinition(s1, items(s1), 0, 0)]
    IN build(filter_remove(s, TRUE))

\* Create a preview of the selected treeview item
draw_widget(s, item) ==
    IF item = Root THEN s
    ELSE LET draw(s2) == [s2 EXCEPT !.trace.draws = @ + 1]
         IN filter_restore(draw(tree_to_uidef(filter_remove(s, TRUE), item).s))

\* Preview > Preview in Toplevel: the document of the toplevel widget of the
\* first selected item goes to the previewer
on_preview_in_toplevel(s) ==
    LET sel == tv_selection(s.treeview)
        preview(s1) == tree_to_uidef(s1, sel[1]).s
    IN IF sel = <<>> THEN s
       ELSE filter_restore(preview(filter_remove(s, TRUE)))

RECURSIVE draw_widgets(_, _)
\* for child in children: self.draw_widget(child)
draw_widgets(s, q) == IF q = <<>> THEN s ELSE draw_widgets(draw_widget(s, Head(q)), Tail(q))

\* ---------------------------------------------------------------- identifiers
_generate_id(s, classname, index) ==
    LET name == LastComponent(classname)
        named == IF s.pref.widget_naming_separator = "UNDERSCORE"
                 THEN name \o <<"_">> \o Str(index)
                 ELSE name \o Str(index)
        lowered == Lower(named)
    IN IF s.pref.widget_naming_ufletter = "yes" THEN Capitalize(lowered) ELSE lowered

\* Search widget id in the tree: the items linked to the root are searched
_is_id_defined(s, widget_id) ==
    \E i \in Attached(s.treeview) : s.treedata[i].identifier = widget_id

\* the name in a tk variable value, 'type:name' or 'name'
TkvarName(value) ==
    LET colon == {k \in 1..Len(value) : value[k] = ":"}
    IN IF colon = {} THEN value
       ELSE SubSeq(value, (CHOOSE k \in colon : TRUE) + 1, Len(value))

\* Search variable name in the tree.
_is_tkvar_defined(s, varname) ==
    \E i \in Attached(s.treeview) :
        \E pname \in DOMAIN s.treedata[i].properties :
            /\ pname \in CLASS_MAP[s.treedata[i].classname].tkvar_properties
            /\ s.treedata[i].properties[pname] # None
            /\ TkvarName(The(s.treedata[i].properties[pname])) = varname

\* Search callback binding name in the tree.
_is_binding_defined(s, cbname) ==
    \E i \in Attached(s.treeview) :
        \E k \in 1..Len(s.treedata[i].bindings) : s.treedata[i].bindings[k].handler = cbname

\* Search command name in the tree: json.loads(value)['value']
_is_command_defined(s, command_name) ==
    \E i \in Attached(s.treeview) :
        \E pname \in DOMAIN s.treedata[i].properties :
            /\ pname \in CLASS_MAP[s.treedata[i].classname].command_properties
            /\ s.treedata[i].properties[pname] # None
            /\ The(s.treedata[i].properties[pname]).value = command_name

\* Check if idvalue is unique in all UI tree.
is_id_unique(s, idvalue) ==
    /\ ~_is_id_defined(s, idvalue)
    /\ ~_is_tkvar_defined(s, idvalue)
    /\ ~_is_command_defined(s, idvalue)
    /\ ~_is_binding_defined(s, idvalue)

\* Check if command name does not collide with other names.
is_command_valid(s, cmdname) ==
    /\ ~_is_id_defined(s, cmdname)
    /\ ~_is_binding_defined(s, cmdname)
    /\ ~_is_tkvar_defined(s, cmdname)

\* Check if tkvarname does not collide with other names.
is_tkvar_valid(s, varname) ==
    /\ ~_is_id_defined(s, varname)
    /\ ~_is_command_defined(s, varname)
    /\ ~_is_binding_defined(s, varname)

\* Check if binding name does not collide with other names.
is_binding_valid(s, cmdname) ==
    /\ ~_is_id_defined(s, cmdname)
    /\ ~_is_command_defined(s, cmdname)
    /\ ~_is_tkvar_defined(s, cmdname)

RECURSIVE UniqueLoop(_, _, _)
\* the while loop of get_unique_id
UniqueLoop(s, classname, start_id) ==
    IF _is_id_defined(s, start_id)
    THEN LET again(s1) ==
                 UniqueLoop(s1, classname, _generate_id(s1, classname, s1.counter[classname]))
         IN again([s EXCEPT !.counter[classname] = @ + 1])
    ELSE [s |-> s, id |-> start_id]

\* get_unique_id taking the identifier it is given as it is
get_unique_id_as_given(s, classname, start_id) ==
    IF start_id = None
    THEN LET first(s1) ==
                 UniqueLoop(s1, classname, _generate_id(s1, classname, s1.counter[classname]))
         IN first([s EXCEPT !.counter[classname] = @ + 1])
    ELSE [s |-> s, id |-> The(start_id)]

\* get_unique_id(classname, start_id): start_id is None or Some(identifier)
get_unique_id(s, classname, start_id) ==
    IF start_id = None
    THEN LET first(s1) ==
                 UniqueLoop(s1, classname, _generate_id(s1, classname, s1.counter[classname]))
         IN first([s EXCEPT !.counter[classname] = @ + 1])
    ELSE UniqueLoop(s, classname, The(start_id))

\* ---------------------------------------------------------------- validation
\* _validate_add letting any container in at root level
_validate_add_any_at_root(s, root_item, classname) ==
    LET new_boclass == CLASS_MAP[classname]
    IN IF root_item # Root
       THEN LET root_classname == s.treedata[root_item].classname
                root_boclass == CLASS_MAP[root_classname]
                allowed_children == root_boclass.allowed_children
                children_count == Len(tv_get_children(s.treeview, root_item))
                maxchildren == root_boclass.maxchildren
                allowed_parents == new_boclass.allowed_parents
            IN IF allowed_children # None /\ The(allowed_children) # {}
                  /\ classname \notin The(allowed_children) THEN FALSE
               ELSE IF maxchildren # None /\ children_count >= The(maxchildren) THEN FALSE
               ELSE IF allowed_parents # None /\ root_classname \notin The(allowed_parents)
                    THEN FALSE
               ELSE IF allowed_children = None /\ root_boclass.container = FALSE THEN FALSE
               ELSE TRUE
       ELSE IF new_boclass.container = FALSE THEN FALSE
            ELSE IF new_boclass.allowed_parents = Some({}) THEN TRUE
            ELSE new_boclass.allowed_parents = None
                     \/ RootName \in The(new_boclass.allowed_parents)

\* _validate_add(root_item, classname), for a classname of CLASS_MAP
_validate_add(s, root_item, classname) ==
    LET new_boclass == CLASS_MAP[classname]
    IN IF root_item # Root
       THEN LET root_classname == s.treedata[root_item].classname
                root_boclass == CLASS_MAP[root_classname]
                allowed_children == root_boclass.allowed_children
                children_count == Len(tv_get_children(s.treeview, root_item))
                maxchildren == root_boclass.maxchildren
                allowed_parents == new_boclass.allowed_parents
            IN IF allowed_children # None /\ The(allowed_children) # {}
                  /\ classname \notin The(allowed_children) THEN FALSE
               ELSE IF maxchildren # None /\ children_count >= The(maxchildren) THEN FALSE
               ELSE IF allowed_parents # None /\ root_classname \notin The(allowed_parents)
                    THEN FALSE
               ELSE IF allowed_children = None /\ root_boclass.container = FALSE THEN FALSE
               ELSE TRUE
       ELSE LET allowed_parents == new_boclass.allowed_parents
            IN IF allowed_parents # None /\ RootName \notin The(allowed_parents) THEN FALSE
               ELSE IF new_boclass.container = FALSE THEN FALSE
               ELSE TRUE

\* the warning _validate_add(root_item, classname, show_warnings=True) logs for an
\* item root_item, "none" when it logs nothing
validate_add_warning(s, root_item, classname) ==
    LET new_boclass == CLASS_MAP[classname]
        root_classname == s.treedata[root_item].classname
        root_boclass == CLASS_MAP[root_classname]
        allowed_children == root_boclass.allowed_children
        children_count == Len(tv_get_children(s.treeview, root_item))
        maxchildren == root_boclass.maxchildren
        allowed_parents == new_boclass.allowed_parents
    IN IF allowed_children # None /\ The(allowed_children) # {}
          /\ classname \notin The(allowed_children) THEN "Allowed children: %s."
       ELSE IF maxchildren # None /\ children_count >= The(maxchildren)
            THEN "Only {0} children allowed for {1}"
       ELSE IF allowed_parents # None /\ root_classname \notin The(allowed_parents)
            THEN "{0} not allowed as parent of {1}"
       ELSE IF allowed_children = None /\ root_boclass.container = FALSE
            THEN "Not allowed, %s is not a container."
       ELSE "none"

\* ---------------------------------------------------------------- layout
get_max_row(s, item) ==
    LET children == tv_get_children(s.treeview, item)
        rows == {layout_property(s.treedata[children[k]], "row") : k \in 1..Len(children)}
    IN IF rows = {} THEN -1 ELSE CHOOSE r \in rows : \A q \in rows : q <= r

\* the row for a pasted item: its own, or one past the last row of its column
\* when a sibling has its row and column
get_available_row(s, parent, new_item_data) ==
    LET new_item_row == layout_property(new_item_data, "row")
        new_item_column == layout_property(new_item_data, "column")
        children == tv_get_children(s.treeview, parent)
        siblings == {s.treedata[children[k]] : k \in 1..Len(children)}
        checked == {d \in siblings : d.identifier # new_item_data.identifier}
        rows == {layout_property(d, "row") :
                    d \in {e \in checked : layout_property(e, "column") = new_item_column}}
        max_row == IF rows = {} THEN 0 ELSE CHOOSE r \in rows : \A q \in rows : q <= r
        increase_row == \E d \in checked :
                            /\ layout_property(d, "row") = new_item_row
                            /\ layout_property(d, "column") = new_item_column
    IN IF increase_row THEN max_row + 1 ELSE new_item_row

\* Removes layout info from element, when copied from clipboard.
update_layout(s, root, data) ==
    LET cm == get_children_manager(s, root, Root)
        cmanager == IF cm # None THEN The(cm) ELSE s.pref.default_layout_manager
    IN IF data.manager # "place" /\ cmanager # data.manager
       THEN set_manager(data, cmanager) ELSE data

\* _insert_item looking for a free row for every pasted widget, outer or not
_insert_item_every_row(s, root, data, from_file, is_first_widget_pasted) ==
    LET grid == /\ root # Root /\ has_layout_defined(data)
                /\ data.manager = "grid" /\ layout_required(data)
        col == layout_property(data, "column")
        item == s.treeview.next
        insert(row) ==
            [s EXCEPT !.treeview =
                          tv_insert(@, root, IF grid THEN [row |-> Some(row), column |-> Some(col)]
                                             ELSE NoValues),
                      !.treedata[item] =
                          IF grid /\ ~from_file THEN set_layout_property(data, "row", row)
                          ELSE data]
        pasted(s1) ==
            IF is_first_widget_pasted
            THEN [s1 EXCEPT !.trace.pasted =
                     Append(@, [item |-> item, parent |-> root, manager |-> data.manager,
                                layout |-> data.layout_properties])]
            ELSE s1
    IN pasted(set_changed(insert(IF grid /\ ~from_file
                                 THEN get_available_row(s, root, data)
                                 ELSE layout_property(data, "row"))))

\* Insert a item on the treeview and fills columns from data; the new item is
\* the treeview's next id
_insert_item(s, root, data, from_file, is_first_widget_pasted) ==
    LET grid == /\ root # Root /\ has_layout_defined(data)
                /\ data.manager = "grid" /\ layout_required(data)
        col == layout_property(data, "column")
        item == s.treeview.next
        insert(row) ==
            [s EXCEPT !.treeview =
                          tv_insert(@, root, IF grid THEN [row |-> Some(row), column |-> Some(col)]
                                             ELSE NoValues),
                      !.treedata[item] =
                          IF grid /\ ~from_file THEN set_layout_property(data, "row", row)
                          ELSE data]
        \* on record: the outer widget of a paste as it came in
        pasted(s1) ==
            IF is_first_widget_pasted
            THEN [s1 EXCEPT !.trace.pasted =
                     Append(@, [item |-> item, parent |-> root, manager |-> data.manager,
                                layout |-> data.layout_properties])]
            ELSE s1
    IN pasted(set_changed(insert(IF grid /\ ~from_file /\ is_first_widget_pasted
                                 THEN get_available_row(s, root, data)
                                 ELSE layout_property(data, "row"))))

\* ---------------------------------------------------------------- populate
RECURSIVE populate_tree(_, _, _, _, _, _), populate_children(_, _, _, _, _)
\* Reads xml nodes and populates tree item. A raise leaves the state as it is at
\* the raise; "bound" ends a run that needs more item ids than there are.
populate_tree(s, master, uidef, wmeta, from_file, is_first_widget_pasted) ==
    IF s.raised # "none" THEN s
    ELSE IF s.treeview.next > (IF from_file THEN MaxIds ELSE s.trace.ids)
         THEN [s EXCEPT !.raised = "bound"]
    ELSE LET cname == wmeta.classname
             original_id == wmeta.identifier
             insert(u) ==
                 IF cname \in Classes
                 THEN populate_children(
                          _insert_item(u.s, master, [wmeta EXCEPT !.identifier = u.id],
                                       from_file, is_first_widget_pasted),
                          u.s.treeview.next, uidef,
                          widget_children(uidef, original_id), from_file)
                 ELSE [u.s EXCEPT !.raised = "Exception"]
         IN insert(get_unique_id(s, cname, Some(wmeta.identifier)))

\* for mchild in uidef.widget_children(original_id): self.populate_tree(...)
populate_children(s, pwidget, uidef, q, from_file) ==
    IF q = <<>> THEN s
    ELSE populate_children(
             populate_tree(s, pwidget, uidef, xmlnode_to_widget(uidef[Head(q)]),
                           from_file, FALSE),
             pwidget, uidef, Tail(q), from_file)

\* ---------------------------------------------------------------- copy, paste
\* copy_to_clipboard leaving the filter in place
copy_shown_to_clipboard(s) ==
    LET selection == tv_selection(s.treeview)
        put(s1, text) ==
            IF s1.duplicating
            THEN [s1 EXCEPT !.virtual_clipboard_for_duplicate = text]
            ELSE [s1 EXCEPT !.clipboard = text]
    IN IF selection = <<>> THEN s
       ELSE put(s, XmlText(build_uidefinition(s, selection, 0, 0)))

\* Copies selected items to clipboard.
copy_to_clipboard(s) ==
    LET selection == tv_selection(s.treeview)
    IN IF selection = <<>> THEN s
       ELSE LET put(s1, text) ==
                    IF s1.duplicating
                    THEN [s1 EXCEPT !.virtual_clipboard_for_duplicate = text]
                    ELSE [s1 EXCEPT !.clipboard = text]
                copy(s1) == put(s1, XmlText(build_uidefinition(s1, selection, 0, 0)))
            IN filter_restore(copy(filter_remove(s, TRUE)))

RECURSIVE paste_until_rejected(_, _, _, _)
\* the loop of a paste that ends at the first widget _validate_add rejects
paste_until_rejected(s, selected_item, uidef, q) ==
    IF q = <<>> \/ s.raised # "none" THEN s
    ELSE LET wmeta == xmlnode_to_widget(uidef[Head(q)])
         IN IF wmeta.classname \notin Classes THEN [s EXCEPT !.raised = "KeyError"]
            ELSE IF _validate_add(s, selected_item, wmeta.classname)
                 THEN paste_until_rejected(
                          populate_tree(s, selected_item, uidef,
                                        update_layout(s, selected_item, wmeta), FALSE, TRUE),
                          selected_item, uidef, Tail(q))
                 ELSE s

RECURSIVE paste_loop(_, _, _, _)
\* for wmeta in uidef.widgets(): validate, update_layout, populate_tree
paste_loop(s, selected_item, uidef, q) ==
    IF q = <<>> \/ s.raised # "none" THEN s
    ELSE LET wmeta == xmlnode_to_widget(uidef[Head(q)])
         IN IF wmeta.classname \notin Classes THEN [s EXCEPT !.raised = "KeyError"]
            ELSE IF _validate_add(s, selected_item, wmeta.classname)
                 THEN paste_loop(
                          populate_tree(s, selected_item, uidef,
                                        update_layout(s, selected_item, wmeta), FALSE, TRUE),
                          selected_item, uidef, Tail(q))
                 ELSE paste_loop(s, selected_item, uidef, Tail(q))

\* a paste that lets the error of a text that is no document reach its caller
paste_unguarded(s) ==
    IF ~s.duplicating /\ s.clipboard.kind # "xml"
    THEN [s EXCEPT !.raised = "ParseError"] ELSE s

\* paste_from_clipboard without its finally clause
paste_without_finally(s) ==
    LET first(selection) == IF selection # <<>> THEN selection[1] ELSE Root
        anchor(s1) == IF s1.duplicating THEN s1.duplicate_parent_iid
                      ELSE first(tv_selection(s1.treeview))
        load(s1, selected_item, text) ==
            IF text.kind = "xml"
            THEN paste_loop(s1, selected_item, text.doc, widgets(text.doc))
            ELSE s1
        see(s5, children_of_parent) ==
            IF children_of_parent # <<>>
            THEN [s5 EXCEPT !.idle = Append(@, children_of_parent[Len(children_of_parent)])]
            ELSE s5
        select_last(s5, selected_item) ==
            see(s5, tv_get_children(s5.treeview, selected_item))
        redraw(s3, selected_item) ==
            IF s3.raised # "none" THEN s3
            ELSE select_last(
                     filter_restore(IF selected_item = Root
                                    THEN draw_widgets(s3, tv_get_children(s3.treeview, Root))
                                    ELSE draw_widget(s3, selected_item)),
                     selected_item)
        paste(s1, selected_item) ==
            redraw(load(s1, selected_item,
                        IF s1.duplicating THEN s1.virtual_clipboard_for_duplicate
                        ELSE s1.clipboard),
                   selected_item)
        start(s1) == paste(s1, anchor(s1))
    IN start(filter_remove(s, TRUE))

paste_from_clipboard(s) ==
    LET first(selection) == IF selection # <<>> THEN selection[1] ELSE Root
        anchor(s1) == IF s1.duplicating THEN s1.duplicate_parent_iid
                      ELSE first(tv_selection(s1.treeview))
        \* tk.TclError (no CLIPBOARD selection) and ET.ParseError are caught
        load(s1, selected_item, text) ==
            IF text.kind = "xml"
            THEN paste_loop(s1, selected_item, text.doc, widgets(text.doc))
            ELSE s1
        \* finally
        finally(s2) ==
            [s2 EXCEPT !.duplicating = FALSE, !.virtual_clipboard_for_duplicate = NoText]
        see(s5, children_of_parent) ==
            IF children_of_parent # <<>>
            THEN [s5 EXCEPT !.idle = Append(@, children_of_parent[Len(children_of_parent)])]
            ELSE s5
        select_last(s5, selected_item) ==
            see(s5, tv_get_children(s5.treeview, selected_item))
        redraw(s3, selected_item) ==
            IF s3.raised # "none" THEN s3
            ELSE select_last(
                     filter_restore(IF selected_item = Root
                                    THEN draw_widgets(s3, tv_get_children(s3.treeview, Root))
                                    ELSE draw_widget(s3, selected_item)),
                     selected_item)
        paste(s1, selected_item) ==
            redraw(finally(load(s1, selected_item,
                                IF s1.duplicating THEN s1.virtual_clipboard_for_duplicate
                                ELSE s1.clipboard)),
                   selected_item)
        start(s1) == paste(s1, anchor(s1))
    IN start(filter_remove(s, TRUE))

\* ---------------------------------------------------------------- delete
RECURSIVE get_toplevel_parent(_, _)
\* Returns the top level parent for treeitem.
get_toplevel_parent(tv, treeitem) ==
    IF treeitem \in Range(tv_get_children(tv, Root)) THEN treeitem
    ELSE get_toplevel_parent(tv, tv_parent(tv, treeitem))

\* the record of the item alone taken out of self.treedata
delete_item_record(s, item) == [s EXCEPT !.treedata[item] = NoData]

\* Delete the item and all its descendants from self.treedata
delete_item_data(s, item) ==
    [s EXCEPT !.treedata =
        [i \in Iids |-> IF i \in Subtree(s.treeview, item) THEN NoData ELSE s.treedata[i]]]

\* the first of the candidates that is an item and is not selected, else ''
FirstCandidate(candidates, selection) ==
    LET ok == {k \in 1..Len(candidates) :
                  candidates[k] # Root /\ candidates[k] \notin Range(selection)}
    IN IF ok = {} THEN Root ELSE candidates[CHOOSE k \in ok : \A j \in ok : k <= j]

RECURSIVE delete_loop_aborting(_, _, _, _)
\* the loop of on_treeview_delete_selection ended by the first item that is gone
delete_loop_aborting(acc, selection, toplevel_items, q) ==
    IF q = <<>> THEN acc
    ELSE LET item == Head(q)
             tv == acc.s.treeview
         IN IF ~tv_exists(tv, item) THEN acc
            ELSE LET parent == IF item \notin Range(toplevel_items)
                               THEN get_toplevel_parent(tv, item) ELSE Root
                     final_focus ==
                         IF acc.final_focus = Root
                         THEN FirstCandidate(<<tv_prev(tv, item), tv_next(tv, item),
                                               tv_parent(tv, item)>>, selection)
                         ELSE acc.final_focus
                     delete(s1) == set_changed([s1 EXCEPT !.treeview = tv_delete(@, item)])
                     redraw(top) == IF top # Root /\ top \notin Range(selection)
                                    THEN acc.parents_to_redraw \cup {top}
                                    ELSE acc.parents_to_redraw
                 IN delete_loop_aborting([s |-> delete(delete_item_data(acc.s, item)),
                                          final_focus |-> final_focus,
                                          parents_to_redraw |-> redraw(parent)],
                                         selection, toplevel_items, Tail(q))

RECURSIVE delete_loop(_, _, _, _)
\* for item in selection: ... except tk.TclError: pass
\* acc: the state, final_focus ('' for None) and parents_to_redraw
delete_loop(acc, selection, toplevel_items, q) ==
    IF q = <<>> THEN acc
    ELSE LET item == Head(q)
             tv == acc.s.treeview
         IN IF ~tv_exists(tv, item)
            THEN delete_loop(acc, selection, toplevel_items, Tail(q))
            ELSE LET parent == IF item \notin Range(toplevel_items)
                               THEN get_toplevel_parent(tv, item) ELSE Root
                     final_focus ==
                         IF acc.final_focus = Root
                         THEN FirstCandidate(<<tv_prev(tv, item), tv_next(tv, item),
                                               tv_parent(tv, item)>>, selection)
                         ELSE acc.final_focus
                     delete(s1) == set_changed([s1 EXCEPT !.treeview = tv_delete(@, item)])
                     redraw(top) == IF top # Root /\ top \notin Range(selection)
                                    THEN acc.parents_to_redraw \cup {top}
                                    ELSE acc.parents_to_redraw
                 IN delete_loop([s |-> delete(delete_item_data(acc.s, item)),
                                 final_focus |-> final_focus,
                                 parents_to_redraw |-> redraw(parent)],
                                selection, toplevel_items, Tail(q))

\* the elements of a set of items as a sequence
SetToSeq(S) == SelectSeq([i \in 1..MaxIds |-> i], LAMBDA i : i \in S)

\* Removes selected items from treeview
on_treeview_delete_selection(s) ==
    LET selection == tv_selection(s.treeview)
        loop(s1) ==
            delete_loop([s |-> s1, final_focus |-> Root, parents_to_redraw |-> {}],
                        selection, tv_get_children(s1.treeview, Root), selection)
        focus(s2, final_focus) ==
            IF final_focus # Root THEN [s2 EXCEPT !.idle = Append(@, final_focus)] ELSE s2
        redraw(acc) ==
            focus(draw_widgets(acc.s, SetToSeq(acc.parents_to_redraw)), acc.final_focus)
        hide(s3) == [s3 EXCEPT !.current_edit = Root]
    IN filter_restore(hide(redraw(loop(filter_remove(s, TRUE)))))

cut_to_clipboard(s) == on_treeview_delete_selection(copy_to_clipboard(s))

\* ---------------------------------------------------------------- duplicate
\* a duplicate made with Copy and Paste
duplicate_by_copy_paste(s) ==
    IF s.duplicate_menu_state # "normal" THEN s
    ELSE paste_from_clipboard(copy_to_clipboard(s))

on_tree_item_duplicate(s) ==
    IF s.duplicate_menu_state # "normal" THEN s
    ELSE LET selected_iid == tv_selection(s.treeview)
         IN IF selected_iid = <<>> THEN s
            ELSE LET record(s1) ==
                         [s1 EXCEPT !.duplicate_parent_iid =
                                        tv_parent(s1.treeview, selected_iid[1])]
                 IN paste_from_clipboard(
                        record(copy_to_clipboard([s EXCEPT !.duplicating = TRUE])))

\* ---------------------------------------------------------------- add, move
\* add_widget trying every ancestor of the selected item up to the root
add_widget_promoting(s, wclass) ==
    LET first(tsel) == IF tsel # <<>> THEN tsel[1] ELSE Root
        selected_item == first(tv_selection(s.treeview))
        see(s3, item) == [s3 EXCEPT !.idle = Append(@, item)]
        position(data0, manager, rownum) ==
            IF manager = "grid"
            THEN set_layout_property(set_layout_property(data0, "row", rownum), "column", 0)
            ELSE data0
        create(s2, root, manager, widget_id, item) ==
            see(draw_widget(
                    _insert_item(s2, root,
                                 position(WidgetMeta(wclass, widget_id, manager), manager,
                                          IF root # Root THEN get_max_row(s2, root) + 1 ELSE 0),
                                 FALSE, FALSE),
                    item),
                item)
        name(u, root, manager) == create(u.s, root, manager, u.id, u.s.treeview.next)
        manage(s1, root, cmanager) ==
            name(get_unique_id(s1, wclass, None), root,
                 IF cmanager # None THEN The(cmanager) ELSE s1.pref.default_layout_manager)
        insert(s1, root) ==
            manage(s1, root, IF root # Root THEN get_children_manager(s1, root, Root) ELSE None)
        up(s1, x) == tv_parent(s1.treeview, x)
        validate(s1) ==
            IF _validate_add(s1, selected_item, wclass) THEN insert(s1, selected_item)
            ELSE IF selected_item # Root /\ _validate_add(s1, up(s1, selected_item), wclass)
                 THEN insert(s1, up(s1, selected_item))
            ELSE IF up(s1, selected_item) # Root
                    /\ _validate_add(s1, up(s1, up(s1, selected_item)), wclass)
                 THEN insert(s1, up(s1, up(s1, selected_item)))
            ELSE s1
    IN validate(filter_remove(s, FALSE))

\* Adds a new item to the treeview.
add_widget(s, wclass) ==
    LET first(tsel) == IF tsel # <<>> THEN tsel[1] ELSE Root
        selected_item == first(tv_selection(s.treeview))
        see(s3, item) == [s3 EXCEPT !.idle = Append(@, item)]
        position(data0, manager, rownum) ==
            IF manager = "grid"
            THEN set_layout_property(set_layout_property(data0, "row", rownum), "column", 0)
            ELSE data0
        create(s2, root, manager, widget_id, item) ==
            see(draw_widget(
                    _insert_item(s2, root,
                                 position(WidgetMeta(wclass, widget_id, manager), manager,
                                          IF root # Root THEN get_max_row(s2, root) + 1 ELSE 0),
                                 FALSE, FALSE),
                    item),
                item)
        name(u, root, manager) == create(u.s, root, manager, u.id, u.s.treeview.next)
        manage(s1, root, cmanager) ==
            name(get_unique_id(s1, wclass, None), root,
                 IF cmanager # None THEN The(cmanager) ELSE s1.pref.default_layout_manager)
        insert(s1, root) ==
            manage(s1, root, IF root # Root THEN get_children_manager(s1, root, Root) ELSE None)
        validate(s1, parent) ==
            IF _validate_add(s1, selected_item, wclass) THEN insert(s1, selected_item)
            ELSE IF parent # selected_item /\ _validate_add(s1, parent, wclass)
                 THEN insert(s1, parent)
            ELSE s1
        start(s1) == validate(s1, tv_parent(s1.treeview, selected_item))
    IN start(filter_remove(s, FALSE))

\* a move that puts the first selected item before its first sibling (up) or
\* after its last one, whatever its place
on_item_move_to_end(s, up) ==
    LET sel == tv_selection(s.treeview)
    IN IF sel = <<>> THEN s
       ELSE LET item == sel[1]
                refresh(m, item_data) ==
                    IF item_data.manager \in {"pack", "place"} \/ ~layout_required(item_data)
                    THEN draw_widget(m, item) ELSE m
                move(s1, parent, other) ==
                    IF other = Root THEN s1
                    ELSE refresh(set_changed(
                                     [s1 EXCEPT !.treeview =
                                         tv_move(@, item, parent,
                                                 IF up THEN 0
                                                 ELSE Len(tv_get_children(s1.treeview, parent)))]),
                                 s1.treedata[item])
                start(s1) ==
                    move(s1, tv_parent(s1.treeview, item),
                         IF up THEN tv_prev(s1.treeview, item) ELSE tv_next(s1.treeview, item))
            IN filter_restore(start(filter_remove(s, TRUE)))

\* on_item_move_up (up = TRUE) and on_item_move_down
on_item_move(s, up) ==
    LET sel == tv_selection(s.treeview)
    IN IF sel = <<>> THEN s
       ELSE LET item == sel[1]
                refresh(m, item_data) ==
                    IF item_data.manager \in {"pack", "place"} \/ ~layout_required(item_data)
                    THEN draw_widget(m, item) ELSE m
                move(s1, parent, other) ==
                    IF other = Root THEN s1
                    ELSE refresh(set_changed(
                                     [s1 EXCEPT !.treeview =
                                         tv_move(@, item, parent, tv_index(s1.treeview, other))]),
                                 s1.treedata[item])
                start(s1) ==
                    move(s1, tv_parent(s1.treeview, item),
                         IF up THEN tv_prev(s1.treeview, item) ELSE tv_next(s1.treeview, item))
            IN filter_restore(start(filter_remove(s, TRUE)))

\* ---------------------------------------------------------------- layout editing
\* Updates tree colums when itemdata is changed (data.notify reaches it)
update_event(s, item) ==
    LET data == s.treedata[item]
        shown == /\ tv_parent(s.treeview, item) # Root /\ layout_required(data)
                 /\ data.manager = "grid"
        columns == IF shown
                   THEN [s EXCEPT !.treeview.values[item] =
                                      [row |-> Some(layout_property(data, "row")),
                                       column |-> Some(layout_property(data, "column"))]]
                   ELSE s
    IN IF ~s._listen_object_updates THEN s
       ELSE set_changed(draw_widget(columns, item))

\* the properties editor stores a property of the edited widget; the widget
\* notifies the tree editor
edit_property(s, pname, value) ==
    update_event([s EXCEPT !.treedata[s.current_edit].properties[pname] = Some(value)],
                 s.current_edit)

\* the bindings editor adds a binding to the edited widget
edit_binding(s, bind) ==
    update_event([s EXCEPT !.treedata[s.current_edit].bindings = Append(@, bind)],
                 s.current_edit)

\* the directions of on_item_grid_move
GRID_UP == 0
GRID_DOWN == 1
GRID_LEFT == 2
GRID_RIGHT == 3

RECURSIVE grid_move_loop(_, _, _)
\* the loop of on_item_grid_move over the selection; it ends at the first item
\* that grid does not manage
grid_move_loop(s, direction, q) ==
    IF q = <<>> THEN s
    ELSE LET item == Head(q)
             data == s.treedata[item]
             current_row == layout_property(data, "row")
             current_col == layout_property(data, "column")
             new_row == IF direction = GRID_UP
                        THEN (IF current_row > 0 THEN current_row - 1 ELSE current_row)
                        ELSE IF direction = GRID_DOWN THEN current_row + 1
                        ELSE current_row
             new_col == IF direction = GRID_LEFT
                        THEN (IF current_col > 0 THEN current_col - 1 ELSE current_col)
                        ELSE IF direction = GRID_RIGHT THEN current_col + 1
                        ELSE current_col
             row(s1) ==
                 IF current_row # new_row
                 THEN update_event(
                          [s1 EXCEPT !.treedata[item] = set_layout_property(@, "row", new_row)],
                          item)
                 ELSE s1
             col(s1) ==
                 IF current_col # new_col
                 THEN update_event(
                          [s1 EXCEPT !.treedata[item] =
                                         set_layout_property(@, "column", new_col)],
                          item)
                 ELSE s1
         IN IF data.manager # "grid" THEN s
            ELSE grid_move_loop(col(row(s)), direction, Tail(q))

on_item_grid_move(s, direction) ==
    LET selection == tv_selection(s.treeview)
        loop(s1) == grid_move_loop(s1, direction, selection)
    IN IF selection = <<>> THEN s
       ELSE filter_restore(loop(filter_remove(s, TRUE)))

\* Clear the row/column text in the object treeview for the selected item.
clear_selected_grid_tree_info(s) ==
    IF s.current_edit # Root
    THEN [s EXCEPT !.treeview.values[s.current_edit] = NoValues] ELSE s

RECURSIVE container_loop(_, _, _, _, _)
\* the loop of change_container_manager over the children of parent
container_loop(s, item, new_manager, q, gridrow) ==
    IF q = <<>> THEN s
    ELSE LET child == Head(q)
             widget == s.treedata[child]
         IN IF widget.manager # "place" \/ child = item
            THEN LET position(w1) ==
                         IF new_manager = "grid"
                         THEN set_layout_property(
                                  set_layout_property(w1, "row", gridrow), "column", 0)
                         ELSE w1
                     values == IF new_manager = "grid"
                               THEN [row |-> Some(gridrow), column |-> Some(0)]
                               ELSE NoValues
                     \* widget.manager = new_manager: the widget notifies its observers
                     manage(s1) ==
                         update_event(
                             [s1 EXCEPT !.treedata[child] = set_manager(widget, new_manager)],
                             child)
                     place(s2) == [s2 EXCEPT !.treedata[child] = position(@),
                                             !.treeview.values[child] = values]
                 IN container_loop(
                        place(manage(s)), item, new_manager, Tail(q),
                        IF new_manager = "grid" THEN gridrow + 1 ELSE gridrow)
            ELSE container_loop(s, item, new_manager, Tail(q), gridrow)

\* change_container_manager heeding the notifications of the children it updates
change_container_manager_listening(s, new_manager) ==
    LET item == s.current_edit
        parent == tv_parent(s.treeview, item)
    IN IF parent = Root THEN s
       ELSE LET children == tv_get_children(s.treeview, parent)
            IN set_changed(draw_widget(
                   editor_edit(container_loop(s, item, new_manager, children, 0), item),
                   item))

change_container_manager(s, new_manager) ==
    LET item == s.current_edit
        parent == tv_parent(s.treeview, item)
    IN IF parent = Root THEN s
       ELSE LET children == tv_get_children(s.treeview, parent)
                \* Stop listening object updates
                stop(s1) == [s1 EXCEPT !._listen_object_updates = FALSE]
                listen(s2) == [s2 EXCEPT !._listen_object_updates = TRUE]
                update(s1) == listen(container_loop(stop(s1), item, new_manager, children, 0))
            IN set_changed(draw_widget(editor_edit(update(s), item), item))

\* ---------------------------------------------------------------- files
\* PygubuDesigner.save_file and do_save
save_file(s) ==
    LET write(r) == [r.s EXCEPT !.savedfile = XmlText(r.uidef), !.is_changed = FALSE]
    IN write(tree_to_uidef(s, Root))

RECURSIVE delete_items(_, _)
\* self.treeview.delete(*children)
delete_items(tv, q) == IF q = <<>> THEN tv ELSE delete_items(tv_delete(tv, Head(q)), Tail(q))

remove_all(s) ==
    LET delete(s1) ==
            [s1 EXCEPT !.treeview = delete_items(@, tv_get_children(@, Root)),
                       !.counter = [c \in DOMAIN s.counter |-> 0],
                       !.current_edit = Root]
    IN delete(filter_remove([s EXCEPT !.treedata = [i \in Iids |-> NoData]], FALSE))

RECURSIVE load_loop_reversed(_, _, _)
\* load_loop taking the widgets of the document last first
load_loop_reversed(s, uidef, q) ==
    IF q = <<>> THEN s
    ELSE load_loop_reversed(
             populate_tree(s, Root, uidef, xmlnode_to_widget(uidef[q[Len(q)]]), TRUE, FALSE),
             uidef, SubSeq(q, 1, Len(q) - 1))

RECURSIVE load_loop(_, _, _)
\* for widget in uidef.widgets(): self.populate_tree('', uidef, widget, from_file=True)
load_loop(s, uidef, q) ==
    IF q = <<>> THEN s
    ELSE load_loop(populate_tree(s, Root, uidef, xmlnode_to_widget(uidef[Head(q)]),
                                 TRUE, FALSE),
                   uidef, Tail(q))

\* WidgetsTreeEditor.load_file inside PygubuDesigner.load_file, for a file that parses
load_file(s, text) ==
    LET saved(s3) == [s3 EXCEPT !.is_changed = FALSE]
        draw(s2) ==
            IF s2.raised # "none" THEN s2
            ELSE saved(draw_widgets(s2, tv_get_children(s2.treeview, Root)))
        load(s0) ==
            IF text.kind # "xml" THEN [s0 EXCEPT !.raised = "ParseError"]
            ELSE draw(load_loop(remove_all(s0), text.doc, widgets(text.doc)))
    IN load([s EXCEPT !.counter = [c \in DOMAIN s.counter |-> 0]])

\* ---------------------------------------------------------------- idle
RECURSIVE idle_loop(_, _)
\* the callbacks queued with after_idle: tree.selection_set(item) (focus and see
\* change nothing here); a TclError for an item that is gone ends that callback only
idle_loop(s, q) ==
    IF q = <<>> THEN s
    ELSE idle_loop(IF tv_exists(s.treeview, Head(q))
                   THEN [s EXCEPT !.treeview = tv_selection_set(@, {Head(q)}),
                                  !.select_event = TRUE]
                   ELSE s,
                   Tail(q))

run_idle(s) == [idle_loop(s, s.idle) EXCEPT !.idle = <<>>]

\* ---------------------------------------------------------------- documents of other origin
ForeignNode(class, id, up) ==
    [class |-> class, id |-> id, manager |-> "pack", layout |-> NoLayout,
     properties |-> NoProperties, bind |-> <<>>, up |-> up]

\* a fragment whose only widget has a class that CLASS_MAP does not know
DocUnknownTop == <<ForeignNode(Bogus, <<"bogus", "1">>, 0)>>
\* a known top-level widget followed by an unknown one
DocUnknownLater ==
    <<ForeignNode(TkFrame, <<"frame", "1">>, 0), ForeignNode(Bogus, <<"bogus", "1">>, 0)>>
\* a known top-level widget with an unknown child
DocUnknownNested ==
    <<ForeignNode(TkFrame, <<"frame", "1">>, 0), ForeignNode(Bogus, <<"bogus", "1">>, 1)>>

\* a frame holding a menu item, which only a menu may hold
DocMisplaced ==
    <<ForeignNode(TkFrame, <<"frame", "1">>, 0),
      ForeignNode(TkMenuitem, <<"command", "1">>, 1)>>
\* a frame holding a button
DocNested ==
    <<ForeignNode(TkFrame, <<"frame", "1">>, 0),
      ForeignNode(TtkButton, <<"button", "1">>, 1)>>

\* a button as another document has it: managed by manager, with its layout
LayoutNode(manager, layout) ==
    [class |-> TtkButton, id |-> <<"button", "1">>, manager |-> manager, layout |-> layout,
     properties |-> NoProperties, bind |-> <<>>, up |-> 0]

DocPlace == <<LayoutNode("place", NoLayout)>>
DocGrid(row, column) == <<LayoutNode("grid", [row |-> Some(row), column |-> Some(column)])>>

LayoutTexts ==
    {XmlText(DocPlace), XmlText(DocGrid(0, 0)), XmlText(DocGrid(2, 0)), XmlText(DocGrid(2, 1))}

\* a well-formed text of another application: it holds no <object>
DocForeign == <<>>

ForeignTexts ==
    {GarbageText, XmlText(DocForeign), XmlText(DocUnknownTop), XmlText(DocUnknownLater),
     XmlText(DocUnknownNested), XmlText(DocMisplaced), XmlText(DocNested)}

FilterTexts == {EmptyStr, <<"frame">>, <<"Frame">>, <<"2">>, <<"3">>, <<"zz">>}

AllClasses == Classes \cup {Bogus}

\* ---------------------------------------------------------------- specification
Start(manager) ==
    /\ treeview = EmptyTreeview
    /\ treedata = [i \in Iids |-> NoData]
    /\ counter = [c \in AllClasses |-> 0]
    /\ virtual_clipboard_for_duplicate = NoText
    /\ duplicating = FALSE
    /\ duplicate_parent_iid = Root
    /\ filter_on = FALSE
    /\ filtervar = EmptyStr
    /\ filter_prev_value = EmptyStr
    /\ filter_prev_sitem = Root
    /\ _detached = <<>>
    /\ current_edit = Root
    /\ _listen_object_updates = TRUE
    /\ is_changed = FALSE
    /\ duplicate_menu_state = "normal"
    /\ clipboard = NoText
    /\ idle = <<>>
    /\ pref = [widget_naming_separator |-> "NONE", widget_naming_ufletter |-> "no",
               default_layout_manager |-> manager]
    /\ savedfile = NoText
    /\ trace = [op |-> "init", changed |-> 0, draws |-> 0, raised |-> "none",
                before |-> NoSnap, pasted |-> <<>>, arg |-> EmptyStr, ids |-> MaxItems]

\* the editor opens with the preferences as installed
Init == Start("pack")

\* the editor opens, the user having chosen either default layout manager
InitLayout == \E manager \in {"grid", "pack"} : Start(manager)

\* the editor opens, grid being the default layout manager
InitGrid == Start("grid")

\* a handler runs to its end, the events it queued are delivered
Handle(r) == r.raised # "bound" /\ Commit(Dispatch(r))

\* the user acts when the idle callbacks have run
Ready == idle = <<>>

\* the callbacks queued by the last handler run; what that handler did stays on record
Idle == idle # <<>> /\ Handle(run_idle(Cur))

\* the palette: on_add_widget_event
Add(wclass) ==
    /\ Ready /\ treeview.next <= MaxItems
    /\ Handle(add_widget([StartTrace(Cur, "add") EXCEPT !.trace.arg = wclass], wclass))

\* the user selects the items S in the treeview
Select(S) ==
    /\ Ready /\ S \subseteq Attached(treeview) /\ Cardinality(S) <= MaxSel
    /\ S # treeview.selection
    /\ Handle([StartTrace(Cur, "select") EXCEPT !.treeview = tv_selection_set(@, S),
                                                !.select_event = TRUE])

Copy == Ready /\ treeview.selection # {} /\ Handle(copy_to_clipboard(StartTrace(Cur, "copy")))

Cut == Ready /\ treeview.selection # {} /\ Handle(cut_to_clipboard(StartTrace(Cur, "cut")))

Paste == Ready /\ Handle(paste_from_clipboard(StartTrace(Cur, "paste")))

Duplicate == Ready /\ Handle(on_tree_item_duplicate(StartTrace(Cur, "duplicate")))

\* on_tree_item_delete, the user confirming
Delete ==
    /\ Ready /\ tv_selection(treeview) # <<>>
    /\ Handle(on_treeview_delete_selection(StartTrace(Cur, "delete")))

MoveUp == Ready /\ Handle(on_item_move(StartTrace(Cur, "move_up"), TRUE))

MoveDown == Ready /\ Handle(on_item_move(StartTrace(Cur, "move_down"), FALSE))

\* the treeview as it was before the filter now active was typed
Snapshot(text) ==
    IF filter_on THEN (IF trace.op = "filter_by" THEN trace.before ELSE NoSnap)
    ELSE IF text = EmptyStr THEN NoSnap
    ELSE [children |-> treeview.children, parent |-> treeview.parent,
          selection |-> treeview.selection, hidden |-> {}]

\* the items the filter now active hides
Hidden(r) ==
    IF r.filter_on /\ r.trace.before # NoSnap
    THEN [r EXCEPT !.trace.before.hidden = {r._detached[k][1] : k \in 1..Len(r._detached)}]
    ELSE r

\* the user edits the filter entry: the trace of filtervar runs filter_by
FilterBy(text) ==
    /\ Ready /\ text # filtervar
    /\ Handle(Hidden(filtervar_set(
                  [StartTrace(Cur, "filter_by") EXCEPT !.trace.before = Snapshot(text)],
                  text)))

\* the name the user types for a variable, a command or a handler
UserName == <<"button", "2">>
TkvarValues == {<<"string", ":">> \o UserName}
CommandValues == {[cbtype |-> "simple", value |-> UserName]}
BindValues == {[sequence |-> "<1>", handler |-> UserName]}

\* a widget is being edited
Editing == current_edit # Root /\ tv_exists(treeview, current_edit)

\* the user types the value of the textvariable property: TkVarPropertyEditor
\* accepts it when global_validator (is_tkvar_valid) does
SetTkvar(value) ==
    /\ Ready /\ Editing
    /\ "textvariable" \in CLASS_MAP[treedata[current_edit].classname].tkvar_properties
    /\ treedata[current_edit].properties.textvariable # Some(value)
    /\ is_tkvar_valid(Cur, TkvarName(value))
    /\ Handle(edit_property(StartTrace(Cur, "set_tkvar"), "textvariable", value))

\* the user types the name of the command: CommandPropertyBase accepts it when
\* global_validator (is_command_valid) does
SetCommand(value) ==
    /\ Ready /\ Editing
    /\ "command" \in CLASS_MAP[treedata[current_edit].classname].command_properties
    /\ treedata[current_edit].properties.command # Some(value)
    /\ is_command_valid(Cur, value.value)
    /\ Handle(edit_property(StartTrace(Cur, "set_command"), "command", value))

\* the user adds a binding: EventHandlerEditor accepts the handler name when
\* global_validator (is_binding_valid) does
AddBinding(bind) ==
    /\ Ready /\ Editing
    /\ treedata[current_edit].bindings = <<>>
    /\ is_binding_valid(Cur, bind.handler)
    /\ Handle(edit_binding(StartTrace(Cur, "add_binding"), bind))

\* another application takes the clipboard
ClipboardOwner(text) ==
    /\ Ready /\ clipboard # text
    /\ Handle([StartTrace(Cur, "clipboard") EXCEPT !.clipboard = text])

\* the components on the palette: the plugins of PluginLeaf and PluginTop are not
\* installed
Components == Classes \ {PluginLeaf, PluginTop}

Next ==
    \/ Idle
    \/ \E wclass \in Components : Add(wclass)
    \/ \E S \in SUBSET treeview.items : Select(S)
    \/ Copy
    \/ Cut
    \/ Paste
    \/ Duplicate
    \/ Delete
    \/ MoveUp
    \/ MoveDown

Spec == Init /\ [][Next]_vars

\* File > Save
Save == Ready /\ Handle(save_file(StartTrace(Cur, "save")))

\* the tree as it is when the text to load is its serialisation
RoundTrip(text) ==
    IF text = XmlText(build_uidefinition(Cur, tv_get_children(treeview, Root), 0, 0))
    THEN [children |-> treeview.children, treedata |-> treedata,
          roots |-> tv_get_children(treeview, Root), hidden |-> {}]
    ELSE NoSnap

\* File > Open of a file that holds text
Load(text) ==
    /\ Ready /\ text # NoText
    /\ Handle(load_file([StartTrace(Cur, "load") EXCEPT !.trace.before = RoundTrip(text)],
                        text))

\* files written by other means: not a document, or one with an unknown class
ForeignFiles == {GarbageText, XmlText(DocUnknownLater), XmlText(DocUnknownNested)}

\* the editor and another application sharing the clipboard
Palette == {TkFrame, TtkButton}

NextClipboard ==
    \/ Idle
    \/ \E wclass \in Palette : Add(wclass)
    \/ \E S \in SUBSET treeview.items : Select(S)
    \/ Copy
    \/ Paste
    \/ Duplicate
    \/ \E text \in ForeignTexts : ClipboardOwner(text)
    \/ \E text \in ForeignFiles : Load(text)

SpecClipboard == Init /\ [][NextClipboard]_vars

\* the layout editor announces that the user changed the manager of the edited
\* widget: <<LayoutEditorContainerManagerToGrid>>, <<LayoutEditorContainerManagerToPack>>
ChangeContainerManager(new_manager) ==
    /\ Ready /\ tv_selection(treeview) # <<>> /\ current_edit = tv_selection(treeview)[1]
    /\ Handle(change_container_manager(StartTrace(Cur, "container"), new_manager))

\* the editor with the layout of widgets
NextLayout ==
    \/ Idle
    \/ \E wclass \in Palette : Add(wclass)
    \/ \E S \in SUBSET treeview.items : Select(S)
    \/ Paste
    \/ Duplicate
    \/ \E text \in LayoutTexts : ClipboardOwner(text)
    \/ \E new_manager \in {"grid", "pack"} : ChangeContainerManager(new_manager)
    \/ \E text \in {EmptyStr, <<"2">>} : FilterBy(text)

SpecLayout == InitLayout /\ [][NextLayout]_vars

\* the editor with its files
NextFile ==
    \/ Idle
    \/ \E wclass \in Palette : Add(wclass)
    \/ \E S \in SUBSET treeview.items : Select(S)
    \/ \E value \in CommandValues : SetCommand(value)
    \/ \E bind \in BindValues : AddBinding(bind)
    \/ Save
    \/ \E text \in {savedfile} \cup ForeignFiles : Load(text)

SpecFile == InitGrid /\ [][NextFile]_vars

\* the editor with the filter entry in use
NextFilter ==
    \/ Idle
    \/ \E wclass \in Palette : Add(wclass)
    \/ \E S \in SUBSET treeview.items : Select(S)
    \/ \E text \in FilterTexts : FilterBy(text)

SpecFilter == Init /\ [][NextFilter]_vars

\* the keys that move the selected widgets over the grid of their container
GridMove(direction) ==
    /\ Ready /\ tv_selection(treeview) # <<>>
    /\ \A item \in treeview.selection :
           /\ direction = GRID_DOWN => layout_property(treedata[item], "row") < MaxRow
           /\ direction = GRID_RIGHT => layout_property(treedata[item], "column") < MaxRow
    /\ Handle(on_item_grid_move(StartTrace(Cur, "grid_move"), direction))

\* the editor with every operation that edits the tree
NextChanges ==
    \/ Idle
    \/ \E wclass \in Palette : Add(wclass)
    \/ \E S \in SUBSET treeview.items : Select(S)
    \/ Copy
    \/ Paste
    \/ Duplicate
    \/ Delete
    \/ MoveUp
    \/ MoveDown
    \/ \E direction \in {GRID_UP, GRID_DOWN, GRID_LEFT, GRID_RIGHT} : GridMove(direction)
    \/ \E new_manager \in {"grid", "pack"} : ChangeContainerManager(new_manager)

SpecChanges == InitGrid /\ [][NextChanges]_vars

\* the editor used while the filter entry holds a text
NextFiltered ==
    \/ Idle
    \/ \E wclass \in Palette : Add(wclass)
    \/ \E S \in SUBSET treeview.items : Select(S)
    \/ \E text \in {EmptyStr, <<"2">>, <<"frame">>} : FilterBy(text)
    \/ Copy
    \/ Cut
    \/ Paste
    \/ Duplicate
    \/ Save

SpecFiltered == Init /\ [][NextFiltered]_vars

\* documents of several top-level widgets
DocTwoButtons ==
    <<ForeignNode(TtkButton, <<"button", "1">>, 0),
      ForeignNode(TtkButton, <<"button", "2">>, 0)>>
DocButtonFrame ==
    <<ForeignNode(TtkButton, <<"button", "1">>, 0),
      ForeignNode(TkFrame, <<"frame", "1">>, 0)>>
DocMenuButton ==
    <<ForeignNode(TkMenu, <<"menu", "1">>, 0),
      ForeignNode(TkMenuitem, <<"command", "1">>, 1),
      ForeignNode(TtkButton, <<"button", "1">>, 0)>>

FragmentTexts == {XmlText(DocTwoButtons), XmlText(DocButtonFrame), XmlText(DocMenuButton)}

\* the editor with documents of several widgets on the clipboard
NextFragments ==
    \/ Idle
    \/ \E wclass \in {TkFrame, ScrollbarHelper} : Add(wclass)
    \/ \E S \in SUBSET treeview.items : Select(S)
    \/ Paste
    \/ \E text \in FragmentTexts : ClipboardOwner(text)

SpecFragments == Init /\ [][NextFragments]_vars

\* Preview > Preview in Toplevel
Preview == Ready /\ Handle(on_preview_in_toplevel(StartTrace(Cur, "preview")))

\* the editor with the operations that set the filter aside and bring it back
NextRestore ==
    \/ Idle
    \/ \E wclass \in Palette : Add(wclass)
    \/ \E S \in SUBSET treeview.items : Select(S)
    \/ \E text \in {EmptyStr, <<"2">>} : FilterBy(text)
    \/ Copy
    \/ Cut
    \/ Paste
    \/ Duplicate
    \/ Delete
    \/ MoveUp
    \/ MoveDown
    \/ \E direction \in {GRID_UP, GRID_DOWN, GRID_LEFT, GRID_RIGHT} : GridMove(direction)
    \/ Preview

SpecRestore == InitGrid /\ [][NextRestore]_vars

\* the palette with every class of the catalog, plugins included
NextCatalog ==
    \/ Idle
    \/ \E wclass \in Classes : Add(wclass)
    \/ \E S \in SUBSET treeview.items : Select(S)

SpecCatalog == Init /\ [][NextCatalog]_vars

\* the editor with the names of variables, commands and handlers being typed
NextNames ==
    \/ Idle
    \/ \E wclass \in Palette : Add(wclass)
    \/ \E S \in SUBSET treeview.items : Select(S)
    \/ \E value \in TkvarValues : SetTkvar(value)
    \/ \E value \in CommandValues : SetCommand(value)
    \/ \E bind \in BindValues : AddBinding(bind)
    \/ Copy
    \/ Cut
    \/ Paste
    \/ Duplicate
    \/ Delete

SpecNames == Init /\ [][NextNames]_vars

\* the user selects any number of items S with shift and control clicks
SelectMany(S) ==
    /\ Ready /\ S \subseteq Attached(treeview) /\ S # treeview.selection
    /\ Handle([StartTrace(Cur, "select") EXCEPT !.treeview = tv_selection_set(@, S),
                                                !.select_event = TRUE])

\* on_tree_item_delete, the user confirming; the tree and the selection as they
\* were stay on record
DeleteSelection ==
    /\ Ready /\ tv_selection(treeview) # <<>>
    /\ Handle(on_treeview_delete_selection(
                  [StartTrace(Cur, "delete") EXCEPT
                       !.trace.before = [children |-> ReattachLoop(treeview, _detached).children,
                                         selection |-> treeview.selection,
                                         hidden |-> {}]]))

\* the editor with selections of any size being deleted
NextDelete ==
    \/ Idle
    \/ \E wclass \in Palette : Add(wclass)
    \/ \E S \in SUBSET treeview.items : SelectMany(S)
    \/ \E text \in {EmptyStr, <<"2">>} : FilterBy(text)
    \/ DeleteSelection

SpecDelete == Init /\ [][NextDelete]_vars

\* Edit > Duplicate, the copies taking the item ids up to MaxIds; the tree and
\* the selection as they were stay on record
DuplicateSelection ==
    /\ Ready
    /\ Handle(on_tree_item_duplicate(
                  [StartTrace(Cur, "duplicate") EXCEPT
                       !.trace.ids = MaxIds,
                       !.trace.before = [children |-> ReattachLoop(treeview, _detached).children,
                                         selection |-> treeview.selection,
                                         hidden |-> {}]]))

\* the editor with widgets and what they hold being duplicated
NextDuplicate ==
    \/ Idle
    \/ \E wclass \in {TkFrame, TtkButton, ScrollbarHelper} : Add(wclass)
    \/ \E S \in SUBSET treeview.items : Select(S)
    \/ DuplicateSelection

SpecDuplicate == InitLayout /\ [][NextDuplicate]_vars

\* a widget of class on the grid at (row, column), as another document has it
GridNode(class, id, row, column, up) ==
    [class |-> class, id |-> id, manager |-> "grid",
     layout |-> [row |-> Some(row), column |-> Some(column)],
     properties |-> NoProperties, bind |-> <<>>, up |-> up]

\* a frame at (row, column) holding two buttons, both in the cell (1, 1)
DocGridNested(row, column) ==
    <<GridNode(TkFrame, <<"frame", "1">>, row, column, 0),
      GridNode(TtkButton, <<"button", "1">>, 1, 1, 1),
      GridNode(TtkButton, <<"button", "2">>, 1, 1, 1)>>

NestedTexts == {XmlText(DocGridNested(0, 0)), XmlText(DocGridNested(0, 1))}

\* Edit > Paste, the pasted widgets taking the item ids up to MaxIds
PasteFragment ==
    /\ Ready
    /\ Handle(paste_from_clipboard([StartTrace(Cur, "paste") EXCEPT !.trace.ids = MaxIds]))

\* the editor with widgets that hold widgets being pasted and duplicated
NextNested ==
    \/ Idle
    \/ \E wclass \in Palette : Add(wclass)
    \/ \E S \in SUBSET treeview.items : Select(S)
    \/ \E text \in NestedTexts : ClipboardOwner(text)
    \/ PasteFragment
    \/ DuplicateSelection

SpecNested == InitLayout /\ [][NextNested]_vars

\* a document whose two widgets have the same id, and the texts with documents
\* that bring identifiers of their own
DocTwins ==
    <<ForeignNode(TkFrame, <<"frame", "1">>, 0), ForeignNode(TkFrame, <<"frame", "1">>, 0)>>

IdentifierTexts == {XmlText(DocTwins), XmlText(DocNested)}

\* the editor with every operation that gives a widget its identifier
NextIdentifiers ==
    \/ Idle
    \/ \E wclass \in Palette : Add(wclass)
    \/ \E S \in SUBSET treeview.items : Select(S)
    \/ \E text \in {EmptyStr, <<"2">>} : FilterBy(text)
    \/ Copy
    \/ Cut
    \/ Paste
    \/ Duplicate
    \/ Delete
    \/ \E text \in IdentifierTexts : ClipboardOwner(text)
    \/ \E text \in IdentifierTexts : Load(text)

SpecIdentifiers == Init /\ [][NextIdentifiers]_vars

\* ---------------------------------------------------------------- properties
\* the constraints _validate_add states, read for the node item under its present parent
NodeValid(item) ==
    LET parent == treeview.parent[item]
        classname == treedata[item].classname
        new_boclass == CLASS_MAP[classname]
    IN IF parent # Root
       THEN LET root_classname == treedata[parent].classname
                root_boclass == CLASS_MAP[root_classname]
            IN /\ root_boclass.allowed_children # None
                      => classname \in The(root_boclass.allowed_children)
               /\ new_boclass.allowed_parents # None
                      => root_classname \in The(new_boclass.allowed_parents)
               /\ root_boclass.maxchildren # None
                      => Len(treeview.children[parent]) <= The(root_boclass.maxchildren)
               /\ root_boclass.allowed_children = None => root_boclass.container
       ELSE /\ new_boclass.allowed_parents # None
                   => RootName \in The(new_boclass.allowed_parents)
            /\ new_boclass.container

\* C1: in every state reached by add, paste, duplicate, cut, delete and move up/down,
\* every node satisfies the structural validator relative to its current parent:
\* allowed children, allowed parents, maxchildren, container parents, and root-level
\* nodes that the validator accepts at root.
C1_StructuralValidity ==
    \A item \in treeview.items : treedata[item].classname \in Classes /\ NodeValid(item)

\* the names a node carries: <<kind, item, place, name>>
EntitiesOf(item) ==
    LET data == treedata[item]
        builder == CLASS_MAP[data.classname]
        set(names) == {p \in DOMAIN data.properties : p \in names /\ data.properties[p] # None}
    IN {<<"identifier", item, "id", data.identifier>>}
       \cup {<<"variable", item, p, TkvarName(The(data.properties[p]))>> :
                 p \in set(builder.tkvar_properties)}
       \cup {<<"command", item, p, The(data.properties[p]).value>> :
                 p \in set(builder.command_properties)}
       \cup {<<"handler", item, ToString(k), data.bindings[k].handler>> :
                 k \in 1..Len(data.bindings)}

NamedEntities == UNION {EntitiesOf(item) : item \in treeview.items}

\* C2: in every tree reached by add, paste, duplicate, cut, delete and load, no two
\* entities among node identifiers, variable names, command names and handler names
\* are equal as strings, whether of the same kind or of different kinds.
C2_GlobalUniqueness ==
    \A e1, e2 \in NamedEntities : e1 # e2 => e1[4] # e2[4]

\* C2, read for names of different kinds only
C2_CrossKindUniqueness ==
    \A e1, e2 \in NamedEntities : e1[1] # e2[1] => e1[4] # e2[4]

\* a filter has been typed and removed again, nothing else having happened since
FilterRoundTrip == trace.op = "filter_by" /\ ~filter_on /\ trace.before # NoSnap

\* C3: applying a non-empty filter and clearing it yields the prior tree: every node
\* has the same parent and every parent the same children in the same order.
C3_FilterRestoresStructure ==
    FilterRoundTrip =>
        /\ treeview.children = trace.before.children
        /\ treeview.parent = trace.before.parent

\* a round trip of a filter that hid the first and the third of three siblings
C3_Witness ==
    /\ FilterRoundTrip
    /\ \E p \in Nodes :
          LET q == trace.before.children[p]
          IN /\ Len(q) = 3
             /\ q[1] \in trace.before.hidden
             /\ q[2] \notin trace.before.hidden
             /\ q[3] \in trace.before.hidden

\* the items tree.selection() returns
Selected == {tv_selection(treeview)[k] : k \in 1..Len(tv_selection(treeview))}

SpansParents == \E a, b \in Selected : treeview.parent[a] # treeview.parent[b]

TrueChildren(p) == ReattachLoop(treeview, _detached).children[p]

\* the position of item x in the sequence q
IndexOf(q, x) == CHOOSE k \in 1..Len(q) : q[k] = x

\* the largest number of a set that is not empty
Max(S) == CHOOSE r \in S : \A q \in S : q <= r

\* the grid cell of a widget; a coordinate not set is 0
GridRow(x) == IF treedata[x].layout_properties.row = None THEN 0
              ELSE The(treedata[x].layout_properties.row)
GridColumn(x) == IF treedata[x].layout_properties.column = None THEN 0
                 ELSE The(treedata[x].layout_properties.column)

\* the outer widgets of the last paste or duplicate that came in managed by grid
\* with a row and a column, below a container
PastedOnGrid ==
    {k \in 1..Len(trace.pasted) :
        /\ trace.op \in {"paste", "duplicate"}
        /\ trace.pasted[k].parent # Root
        /\ trace.pasted[k].manager = "grid"
        /\ trace.pasted[k].layout.row # None
        /\ trace.pasted[k].layout.column # None}

\* the row collision avoidance gives the k-th pasted widget, the siblings that
\* occupy cells being those of sibs
AvoidedRow(k, sibs) ==
    LET r == The(trace.pasted[k].layout.row)
        c == The(trace.pasted[k].layout.column)
    IN IF \E x \in sibs : GridRow(x) = r /\ GridColumn(x) = c
       THEN Max({GridRow(x) : x \in {y \in sibs : GridColumn(y) = c}}) + 1
       ELSE r

\* the siblings the k-th pasted widget found in its container
SiblingsFound(k) ==
    LET kids == TrueChildren(trace.pasted[k].parent)
    IN {kids[j] : j \in 1..(IndexOf(kids, trace.pasted[k].item) - 1)}

\* C6: an outermost grid-managed node with coordinates (r, c) pasted or duplicated
\* into a container gets the row (maximum row among the siblings in column c) + 1
\* if a sibling occupies the grid cell (r, c), and keeps r otherwise; its column is c.
C6_GridCollisionAvoidance ==
    \A k \in PastedOnGrid :
        /\ GridColumn(trace.pasted[k].item) = The(trace.pasted[k].layout.column)
        /\ GridRow(trace.pasted[k].item) =
               AvoidedRow(k, {x \in SiblingsFound(k) : treedata[x].manager = "grid"})

\* the same with every sibling counted, whatever its manager
C6_EverySiblingCounted ==
    \A k \in PastedOnGrid :
        /\ GridColumn(trace.pasted[k].item) = The(trace.pasted[k].layout.column)
        /\ GridRow(trace.pasted[k].item) = AvoidedRow(k, SiblingsFound(k))

\* a node pasted at (2, 0) beside a sibling at (2, 0)
C6_CollisionPasted ==
    \E k \in PastedOnGrid :
        /\ trace.pasted[k].layout = [row |-> Some(2), column |-> Some(0)]
        /\ \E x \in SiblingsFound(k) :
              treedata[x].manager = "grid" /\ GridRow(x) = 2 /\ GridColumn(x) = 0

\* what a switch of the container p to new_manager has to do for its children kids
\* that do not use place, and leave alone for those that do
Switched(kids, new_manager) ==
    LET moved == SelectSeq(kids, LAMBDA x : treedata[x].manager # "place")
    IN /\ \A j \in 1..Len(moved) :
             /\ treedata'[moved[j]].manager = new_manager
             /\ new_manager = "grid" =>
                    treedata'[moved[j]].layout_properties =
                        [row |-> Some(j - 1), column |-> Some(0)]
             /\ new_manager # "grid" => treeview'.values[moved[j]] = NoValues
       /\ \A x \in Range(kids) : treedata[x].manager = "place" => treedata'[x] = treedata[x]

\* C7: a container-manager switch to grid gives every child that does not use place
\* the manager grid, rows 0, 1, 2, ... in the children's order and column 0; every
\* child that uses place keeps its manager and layout, the edited one too; a switch
\* away from grid gives every non-place child the new manager and clears its
\* displayed row and column.
C7_ContainerManagerSwitch ==
    [][\A new_manager \in {"grid", "pack"} :
          (ChangeContainerManager(new_manager) /\ treeview.parent[current_edit] # Root) =>
              Switched(TrueChildren(treeview.parent[current_edit]), new_manager)]_vars

\* the same for the children the treeview shows, the edited child leaving place
C7_ShownChildrenSwitched ==
    [][\A new_manager \in {"grid", "pack"} :
          (/\ ChangeContainerManager(new_manager)
           /\ treeview.parent[current_edit] # Root
           /\ treedata[current_edit].manager # "place") =>
              Switched(treeview.children[treeview.parent[current_edit]], new_manager)]_vars

\* the nodes of the tree that are containers with no restriction on their children
OpenContainers ==
    {p \in Attached(treeview) :
        /\ CLASS_MAP[treedata[p].classname].container
        /\ CLASS_MAP[treedata[p].classname].allowed_children = None
        /\ CLASS_MAP[treedata[p].classname].maxchildren = None}

\* C8 as stated: a component whose allowed_parents is the empty set is rejected
\* under a container with no restriction on its children and accepted at root.
C8_EmptyParentsAcceptedAtRoot ==
    \A c \in Classes :
        CLASS_MAP[c].allowed_parents = Some({}) =>
            /\ \A p \in OpenContainers : ~_validate_add(Cur, p, c)
            /\ _validate_add(Cur, Root, c)

\* C8 amended: a component whose allowed_parents is the empty set is rejected under
\* a container with no restriction on its children and at root alike, so the tree
\* never holds one; a container whose allowed_parents names only the root (Menu) is
\* rejected under such a container and accepted at root, so it is found at root only.
C8_RootOnlyParents ==
    \A c \in Classes :
        /\ CLASS_MAP[c].allowed_parents = Some({}) =>
              /\ \A p \in OpenContainers : ~_validate_add(Cur, p, c)
              /\ ~_validate_add(Cur, Root, c)
              /\ \A item \in treeview.items : treedata[item].classname # c
        /\ CLASS_MAP[c].allowed_parents = Some({RootName}) /\ CLASS_MAP[c].container =>
              /\ \A p \in OpenContainers : ~_validate_add(Cur, p, c)
              /\ _validate_add(Cur, Root, c)
              /\ \A item \in treeview.items :
                    treedata[item].classname = c => treeview.parent[item] = Root

\* the user has just asked for a widget whose allowed_parents is the empty set, a
\* top-level Frame being selected: it was let in neither below the Frame nor at root
C8_Witness ==
    /\ trace.op = "add" /\ trace.changed = 0
    /\ CLASS_MAP[trace.arg].allowed_parents = Some({})
    /\ \E f \in OpenContainers :
          /\ tv_selection(treeview) = <<f>>
          /\ treedata[f].classname = TkFrame
          /\ treeview.parent[f] = Root

\* the widget has the class, properties, manager, layout and bindings of the other
SameData(a, b) ==
    /\ a.classname = b.classname
    /\ a.properties = b.properties
    /\ a.manager = b.manager
    /\ a.layout_properties = b.layout_properties
    /\ a.bindings = b.bindings

RECURSIVE SameWidgets(_, _, _)
\* the items new of the tree are the items old of the tree b, one by one: the same
\* data but for the identifier, and the same children in the same order
SameWidgets(b, old, new) ==
    /\ Len(old) = Len(new)
    /\ \A k \in 1..Len(old) :
          /\ SameData(b.treedata[old[k]], treedata[new[k]])
          /\ SameWidgets(b, b.children[old[k]], treeview.children[new[k]])

\* the serialisation of the tree has just been loaded
LoadedRoundTrip == trace.op = "load" /\ trace.raised = "none" /\ trace.before # NoSnap

UnknownClassRaised ==
    /\ Paste \/ Duplicate \/ \E text \in ForeignFiles : Load(text)
    /\ trace'.raised \in {"KeyError", "Exception"}

\* C10: a paste, duplicate or load that fails on a classname the catalog does not
\* know leaves the tree as it was: no node of the fragment stays inserted, the
\* per-class id counters are unchanged and no document-changed signal was raised.
C10_UnknownClassAtomic ==
    [][UnknownClassRaised =>
          /\ treeview'.items = treeview.items
          /\ treeview'.parent = treeview.parent
          /\ treeview'.children = treeview.children
          /\ treedata' = treedata
          /\ counter' = counter
          /\ trace'.changed = 0]_vars

\* the same for a paste that fails on its first top-level widget
C10_UnknownFirstAtomic ==
    [][(UnknownClassRaised /\ Paste /\ clipboard = XmlText(DocUnknownTop)) =>
          /\ treeview'.items = treeview.items
          /\ treeview'.parent = treeview.parent
          /\ treeview'.children = treeview.children
          /\ treedata' = treedata
          /\ counter' = counter
          /\ trace'.changed = 0]_vars

\* the tree of the document: the children of every node, those the filter hides
\* included, and the data of every widget
TrueTree == [children |-> ReattachLoop(treeview, _detached).children,
             treedata |-> treedata]

\* the selected items that no other selected item holds in its subtree
DeleteBatch ==
    {a \in treeview.selection :
        ~\E b \in treeview.selection : b # a /\ a \in Subtree(treeview, b)}

\* the handler about to run changes the manager of the children of a container
SwitchesContainer == current_edit # Root /\ treeview.parent[current_edit] # Root

\* C11: a handler calls set_changed(), and the flag is_changed is set when it
\* returns, exactly when it changed the tree of the document (a widget added,
\* pasted, duplicated, deleted, moved among its siblings or over the grid) or
\* switched the manager of the children of a container; a handler that leaves the
\* tree as it was (an add or a paste rejected, a paste of text that is no
\* document, a move at the first or last sibling, a grid move up at row 0, a switch
\* of manager at a root widget, a copy) does not call it, and a delete calls it
\* once for every selected item that was still there when its turn came
C11_ChangedSignal ==
    [][idle = <<>> =>
          /\ trace'.changed > 0 <=>
                 \/ TrueTree' # TrueTree
                 \/ trace'.op = "container" /\ SwitchesContainer
          /\ trace'.changed > 0 => is_changed'
          /\ trace'.changed = 0 => is_changed' = is_changed
          /\ trace'.op = "delete" => trace'.changed = Cardinality(DeleteBatch)]_vars

\* a grid move that moved no widget (up at row 0, left at column 0) in a document
\* changed before
C11_Witness ==
    /\ trace.op = "grid_move" /\ trace.changed = 0 /\ is_changed
    /\ treeview.selection # {}
    /\ \A a \in treeview.selection : treedata[a].manager = "grid"

\* the editor as it would be with the filter entry empty: every hidden item back
\* under its parent
Unfiltered == [Cur EXCEPT !.treeview = ReattachLoop(treeview, _detached)]

\* the document of the items q and of all their descendants, hidden or not
TrueDocument(q) == build_uidefinition(Unfiltered, q, 0, 0)

\* the items the filter hides
HiddenItems == {_detached[k][1] : k \in 1..Len(_detached)}

\* what tree_to_uidef returns for the item, or for the whole tree, is the
\* document of the tree with nothing hidden
ToDocumentTrue ==
    \A item \in Attached(treeview) \cup {Root} :
        tree_to_uidef(Cur, item).uidef =
            TrueDocument(IF item = Root THEN TrueChildren(Root) ELSE <<item>>)

\* C12: the document tree_to_uidef builds (for the file saved, for the preview)
\* and the text Copy and Cut put on the clipboard hold the selected or given
\* items with every descendant in its true order, those the filter hides
\* included, as they would with no filter
C12_DocumentOfTrueTree ==
    /\ []ToDocumentTrue
    /\ [][idle = <<>> =>
             /\ trace'.op \in {"copy", "cut"} /\ tv_selection(treeview) # <<>> =>
                    clipboard' = XmlText(TrueDocument(tv_selection(treeview)))
             /\ trace'.op = "save" =>
                    savedfile' = XmlText(TrueDocument(TrueChildren(Root)))]_vars

\* a copy made of a widget while the filter hid one of its descendants
C12_Witness ==
    /\ trace.op = "copy" /\ filter_on
    /\ \E a \in treeview.selection :
           /\ HiddenItems \cap Subtree(Unfiltered.treeview, a) # {}
           /\ clipboard = XmlText(TrueDocument(<<a>>))

\* the identifiers of the widgets the step removes from the tree, and of those
\* whose nodes it leaves on the clipboard
RemovedByStep == {treedata[i].identifier : i \in treeview.items \ treeview'.items}
CopiedByStep == {clipboard'.doc[k].id : k \in 1..Len(clipboard'.doc)}

\* C13: a Cut of one or more selected widgets removes from the tree the widgets
\* whose nodes it wrote to the clipboard, them and no others, with a filter
\* active or not
C13_CutDeletesWhatItCopied ==
    [][idle = <<>> /\ trace'.op = "cut" /\ tv_selection(treeview) # <<>> =>
          RemovedByStep = CopiedByStep]_vars

\* the same of a Cut made with no filter active, or of one widget
C13_CutUnfilteredOrSingle ==
    [][/\ idle = <<>> /\ trace'.op = "cut" /\ tv_selection(treeview) # <<>>
       /\ ~filter_on \/ Len(tv_selection(treeview)) = 1
       => RemovedByStep = CopiedByStep]_vars

\* the widgets of pasted are copies of widgets of selection, in their order
RECURSIVE CopiesOf(_, _)
CopiesOf(pasted, selection) ==
    IF pasted = <<>> THEN TRUE
    ELSE IF selection = <<>> THEN FALSE
    ELSE LET new == treedata'[Head(pasted).item]
             old == treedata[Head(selection)]
         IN \/ /\ new.classname = old.classname
               /\ new.properties = old.properties
               /\ new.bindings = old.bindings
               /\ Cardinality(Subtree(treeview', Head(pasted).item))
                      = Cardinality(Subtree(treeview, Head(selection)))
               /\ CopiesOf(Tail(pasted), Tail(selection))
            \/ CopiesOf(pasted, Tail(selection))

\* C14: Duplicate leaves the clipboard as it was, whatever it held, and the
\* widgets it inserts are copies of the selected widgets, taken from
\* virtual_clipboard_for_duplicate, which it leaves empty
C14_DuplicateKeepsClipboard ==
    [][idle = <<>> /\ trace'.op = "duplicate" =>
          /\ clipboard' = clipboard
          /\ CopiesOf(trace'.pasted, tv_selection(treeview))
          /\ virtual_clipboard_for_duplicate' = NoText /\ ~duplicating']_vars

\* a duplicate made while the clipboard held the document of another widget
C14_Witness ==
    /\ trace.op = "duplicate" /\ trace.pasted # <<>>
    /\ clipboard.kind = "xml" /\ clipboard.doc # <<>>
    /\ clipboard.doc[1].class # treedata[trace.pasted[1].item].classname

\* what the clipboard holds is no document of widgets: nothing (tk.TclError),
\* a text that does not parse (ET.ParseError), a text with no widget in it
NoDocument == {NoText, GarbageText, XmlText(DocForeign)}

\* C15: a paste of a clipboard that is empty, that does not parse or that holds
\* the text of another application inserts nothing: the tree (items, children
\* in their order, identifiers, managers, layout) and the class counters stay as
\* they were, set_changed() is not called and no exception leaves the handler
C15_PasteOfNoDocument ==
    [][idle = <<>> /\ trace'.op = "paste" /\ clipboard \in NoDocument =>
          /\ TrueTree' = TrueTree /\ treeview'.items = treeview.items
          /\ counter' = counter
          /\ trace'.raised = "none" /\ trace'.changed = 0]_vars

\* a paste of a text that does not parse into a tree that has widgets
C15_Witness ==
    /\ trace.op = "paste" /\ clipboard = GarbageText /\ trace.raised = "none"
    /\ trace.changed = 0 /\ treeview.items # {}

\* the item a paste inserts under: the first selected item, or the root
Anchor == IF tv_selection(treeview) # <<>> THEN tv_selection(treeview)[1] ELSE Root

\* the editor as it was when the paste looked at a widget, n widgets having been
\* pasted under the anchor before
WithPasted(n) ==
    [Cur EXCEPT !.treeview.children[Anchor] =
                    SubSeq(treeview'.children[Anchor], 1, Len(treeview.children[Anchor]) + n)]

\* the positions in doc of the outer widgets that pass _validate_add against the
\* anchor when their turn comes, n widgets having been pasted before
RECURSIVE PassingFragments(_, _, _)
PassingFragments(doc, q, n) ==
    IF q = <<>> THEN <<>>
    ELSE IF _validate_add(WithPasted(n), Anchor, doc[Head(q)].class)
         THEN <<Head(q)>> \o PassingFragments(doc, Tail(q), n + 1)
         ELSE PassingFragments(doc, Tail(q), n)

\* the number of nodes of the outer widget at position k of doc and below it
FragmentSize(doc, k) ==
    LET later == {j \in (k + 1)..Len(doc) : doc[j].up = 0}
    IN (IF later = {} THEN Len(doc) + 1 ELSE CHOOSE j \in later : \A i \in later : j <= i) - k

RECURSIVE SumSizes(_, _)
SumSizes(doc, q) == IF q = <<>> THEN 0 ELSE FragmentSize(doc, Head(q)) + SumSizes(doc, Tail(q))

\* C16: a paste of a document of several outer widgets that ends without an
\* exception has validated each of them against the anchor in the order of the
\* document: those that pass _validate_add when their turn comes are inserted under
\* the anchor with all their descendants, in that order, also after others were
\* rejected; those that fail are not inserted, nor is any of their descendants
C16_FragmentsValidatedOneByOne ==
    [][idle = <<>> /\ trace'.op = "paste" /\ clipboard.kind = "xml"
       /\ trace'.raised = "none" =>
          LET doc == clipboard.doc
              passing == PassingFragments(doc, widgets(doc), 0)
              pasted == trace'.pasted
          IN /\ Len(pasted) = Len(passing)
             /\ \A k \in 1..Len(pasted) :
                    /\ treedata'[pasted[k].item].classname = doc[passing[k]].class
                    /\ pasted[k].parent = Anchor
                    /\ Cardinality(Subtree(treeview', pasted[k].item))
                           = FragmentSize(doc, passing[k])
             /\ Cardinality(treeview'.items \ treeview.items) = SumSizes(doc, passing)]_vars

\* a paste that rejected the first outer widget of the document and inserted a
\* later one
C16_Witness ==
    /\ trace.op = "paste" /\ trace.raised = "none" /\ clipboard.kind = "xml"
    /\ Len(trace.pasted) = 1 /\ Len(widgets(clipboard.doc)) = 2
    /\ treedata[trace.pasted[1].item].classname = clipboard.doc[Len(clipboard.doc)].class
    /\ clipboard.doc[1].class # clipboard.doc[Len(clipboard.doc)].class

\* the last handler was a paste or a duplicate that inserted a widget, and the
\* callbacks it queued with after_idle have run
PasteSettled ==
    /\ trace.op \in {"paste", "duplicate"} /\ trace.pasted # <<>> /\ trace.raised = "none"
    /\ idle = <<>>

\* C17: when a paste or a duplicate has inserted a widget and its idle callbacks
\* have run, tree.selection() is the last outer widget it inserted, and nothing
\* else; so it is when the filter entry held a text as the paste began
C17_LastPastedSelected ==
    PasteSettled => tv_selection(treeview) = <<trace.pasted[Len(trace.pasted)].item>>

\* the same when no filter is active
C17_LastPastedSelectedUnfiltered ==
    PasteSettled /\ ~filter_on =>
        tv_selection(treeview) = <<trace.pasted[Len(trace.pasted)].item>>

\* the identifier get_unique_id would return now for a new widget of the class
GeneratedId(classname) == get_unique_id(Cur, classname, None).id

\* C18: the identifier get_unique_id returns for a class differs from every
\* widget identifier, every variable name, every command name and every handler
\* name the tree holds when it is called
C18_GeneratedIdUnique ==
    \A classname \in Palette : \A e \in NamedEntities : e[4] # GeneratedId(classname)

\* C18, read for the widget identifiers only
C18_GeneratedIdNoIdentifier ==
    \A classname \in Palette : \A e \in NamedEntities :
        e[1] = "identifier" => e[4] # GeneratedId(classname)

\* C19: is_id_unique(name) is false for every name that is the identifier, a
\* variable name, a command name or a handler name of a widget of the document,
\* in every state, those included in which the filter hides the widget
C19_TakenNamesNotUnique ==
    \A e \in NamedEntities : ~is_id_unique(Cur, e[4])

\* C19, read for the states in which no filter is active
C19_TakenNamesNotUniqueUnfiltered ==
    ~filter_on => \A e \in NamedEntities : ~is_id_unique(Cur, e[4])

\* the first of the four tests of an insertion of class c under the item p that
\* fails, 0 when none does; declared says when a parent counts as declaring a set
\* of allowed children
FirstFailure(p, c, declared(_)) ==
    LET parent == CLASS_MAP[treedata[p].classname]
        count == Len(tv_get_children(treeview, p))
    IN IF declared(parent.allowed_children) /\ c \notin The(parent.allowed_children) THEN 1
       ELSE IF parent.maxchildren # None /\ count >= The(parent.maxchildren) THEN 2
       ELSE IF CLASS_MAP[c].allowed_parents # None
               /\ treedata[p].classname \notin The(CLASS_MAP[c].allowed_parents) THEN 3
       ELSE IF parent.allowed_children = None /\ ~parent.container THEN 4
       ELSE 0

\* the warning of each test
WarningOf(k) ==
    CASE k = 1 -> "Allowed children: %s."
      [] k = 2 -> "Only {0} children allowed for {1}"
      [] k = 3 -> "{0} not allowed as parent of {1}"
      [] k = 4 -> "Not allowed, %s is not a container."
      [] OTHER -> "none"

\* _validate_add answers, and warns, as the first failing test says
ValidatesAs(declared(_)) ==
    \A p \in Attached(treeview) : \A c \in Classes :
        /\ _validate_add(Cur, p, c) <=> FirstFailure(p, c, declared) = 0
        /\ validate_add_warning(Cur, p, c) = WarningOf(FirstFailure(p, c, declared))

\* the parent declares a set of allowed children, be it empty
DeclaresSet(x) == x # None
\* the parent declares a set of allowed children that names a class
DeclaresClasses(x) == x # None /\ The(x) # {}

\* C20: _validate_add rejects an insertion under an item exactly when one of
\* these holds, and its warning is that of the first that does: (1) the parent
\* declares a set of allowed children and the class is not in it, (2) the parent
\* declares maxchildren and has that many children or more, (3) the class
\* declares allowed_parents and the class of the parent is not among them,
\* (4) the parent declares no set of allowed children and is no container
C20_RejectsByFirstFailure == ValidatesAs(DeclaresSet)

\* C20, a set of allowed children that is empty counting in test (1) as none
\* declared
C20_RejectsByFirstFailureNonEmpty == ValidatesAs(DeclaresClasses)

\* what the class declares allows it at root level: it names the root among its
\* allowed parents, or it names no allowed parents and is a container
AllowedAtRoot(c) ==
    \/ CLASS_MAP[c].allowed_parents # None /\ RootName \in The(CLASS_MAP[c].allowed_parents)
    \/ CLASS_MAP[c].allowed_parents = None /\ CLASS_MAP[c].container

\* C21: for an insertion at root level _validate_add accepts a class exactly when
\* its allowed_parents names the root, or it declares no allowed_parents and is a
\* container; a class that names the root is accepted, container or not
C21_RootInsertion ==
    \A c \in Classes : _validate_add(Cur, Root, c) <=> AllowedAtRoot(c)

\* C21, read for the classes that are containers
C21_RootInsertionOfContainers ==
    \A c \in Classes : CLASS_MAP[c].container => (_validate_add(Cur, Root, c) <=> AllowedAtRoot(c))

\* the items the step adds to the tree
NewItems == treeview'.items \ treeview.items

\* where add_widget has to insert a widget of class c: under the first selected
\* item when _validate_add accepts it there, else under the parent of that item
\* when it is accepted there, else nowhere
AddTargets(c) ==
    IF _validate_add(Cur, Anchor, c) THEN {Anchor}
    ELSE IF Anchor # Root /\ _validate_add(Cur, treeview.parent[Anchor], c)
         THEN {treeview.parent[Anchor]}
    ELSE {}

\* the item a duplicate inserts under: the parent of the first selected item
DuplicateAnchor == treeview.parent[tv_selection(treeview)[1]]

\* C22: an add whose class _validate_add rejects at the first selected item tries
\* the parent of that item (the root for a top-level item) once, and inserts the
\* widget there exactly when _validate_add accepts it there; rejected there too,
\* or rejected at root with nothing selected, it inserts nothing and goes no
\* further up. A paste inserts its outer widgets under the first selected item
\* (the root with nothing selected) and a duplicate under the parent of the first
\* selected item, or not at all: neither tries another item.
C22_RetryOnceAtParent ==
    [][idle = <<>> =>
          /\ trace'.op = "add" =>
                 /\ AddTargets(trace'.arg) = {} => NewItems = {} /\ TrueTree' = TrueTree
                 /\ AddTargets(trace'.arg) # {} =>
                        /\ Cardinality(NewItems) = 1
                        /\ \A i \in NewItems :
                               /\ treeview'.parent[i] \in AddTargets(trace'.arg)
                               /\ treedata'[i].classname = trace'.arg
          /\ trace'.op = "paste" /\ clipboard.kind = "xml" =>
                 /\ \A k \in 1..Len(trace'.pasted) : trace'.pasted[k].parent = Anchor
                 /\ (\A k \in Range(widgets(clipboard.doc)) :
                         ~_validate_add(Cur, Anchor, clipboard.doc[k].class))
                        => NewItems = {}
          /\ trace'.op = "duplicate" /\ tv_selection(treeview) # <<>> =>
                 /\ \A k \in 1..Len(trace'.pasted) : trace'.pasted[k].parent = DuplicateAnchor
                 /\ (\A i \in Range(tv_selection(treeview)) :
                         ~_validate_add(Cur, DuplicateAnchor, treedata[i].classname))
                        => NewItems = {}]_vars

\* an add rejected at the selected widget and at its parent, a widget that is not
\* top-level being selected and the root accepting the class
C22_Witness ==
    /\ trace.op = "add" /\ trace.changed = 0
    /\ Anchor # Root /\ treeview.parent[Anchor] # Root
    /\ _validate_add(Cur, Root, trace.arg)

\* an add rejected at the selected widget and accepted at its parent
C22_Promoted ==
    /\ trace.op = "add" /\ trace.changed = 1 /\ idle # <<>>
    /\ Anchor # Root /\ treeview.parent[treeview.next - 1] = treeview.parent[Anchor]
    /\ treeview.parent[Anchor] # Root

\* the test _detach makes of an item: the text of the filter entry is found in
\* the item's label or in its class name, both in lower case
Matches(text, item) ==
    \/ IsSubstr(text, Lower(treelabel(treedata[item])))
    \/ IsSubstr(text, Lower(treedata[item].classname))

\* the item, or an item below it in the tree tv, matches
HoldsMatch(tv, text, item) == \E j \in Subtree(tv, item) : Matches(text, j)

\* the items of the siblings q of the tree tv, and below them, that hold no match
\* and whose parent holds one, each with its parent and its index, in tree order
RECURSIVE MatchlessRoots(_, _, _)
MatchlessRoots(tv, text, q) ==
    IF q = <<>> THEN <<>>
    ELSE (IF HoldsMatch(tv, text, Head(q)) THEN MatchlessRoots(tv, text, tv.children[Head(q)])
          ELSE << <<Head(q), tv.parent[Head(q)], tv_index(tv, Head(q))>> >>)
         \o MatchlessRoots(tv, text, Tail(q))

\* C23: when a text that is not empty has been typed in the filter entry, the items
\* the treeview shows are those that match or hold a match below them, so every
\* match is shown with all its ancestors; _detached records the top items of the
\* subtrees that hold no match, in tree order, each with its parent and the index
\* it had among its siblings
C23_FilterShowsMatches ==
    [][idle = <<>> /\ trace'.op = "filter_by" /\ filtervar' # EmptyStr =>
          /\ filter_on'
          /\ Attached(treeview') =
                 {i \in treeview.items : HoldsMatch(Unfiltered.treeview, filtervar', i)}
          /\ _detached' = MatchlessRoots(Unfiltered.treeview, filtervar',
                                         Unfiltered.treeview.children[Root])]_vars

\* a filter that shows a widget that does not match, for the match below it, and
\* hides its other child
C23_Witness ==
    /\ trace.op = "filter_by" /\ filter_on
    /\ \E a \in Attached(treeview) :
           /\ ~Matches(filtervar, a)
           /\ \E b \in Range(treeview.children[a]) : Matches(filtervar, b)
           /\ \E k \in 1..Len(_detached) : _detached[k][2] = a

\* the items a filter of this text has to show, letter case ignored: those whose
\* label or class name holds the text, and those that hold such an item
ShownIgnoringCase(text) ==
    {i \in treeview.items : HoldsMatch(Unfiltered.treeview, Lower(text), i)}

\* C24: the filter matches ignoring letter case: a text typed in the filter entry
\* shows the items whose label (identifier and class name) or class name holds
\* the text when both are taken in lower case, so two texts that differ in letter
\* case only show and hide the same items
C24_MatchIgnoresCase ==
    [][idle = <<>> /\ trace'.op = "filter_by" /\ filtervar' # EmptyStr =>
          Attached(treeview') = ShownIgnoringCase(filtervar')]_vars

\* C24, read for the texts that hold no upper case letter
C24_MatchOfLowerCaseText ==
    [][/\ idle = <<>> /\ trace'.op = "filter_by" /\ filtervar' # EmptyStr
       /\ filtervar' = Lower(filtervar')
       => Attached(treeview') = ShownIgnoringCase(filtervar')]_vars

\* the handlers that set the filter aside (filter_remove(remember=True)) and bring
\* it back (filter_restore)
RestoringOps ==
    {"copy", "cut", "paste", "duplicate", "delete", "move_up", "move_down", "grid_move",
     "preview"}

\* the treeview tv with the records det of hidden items shows the tree of the data
\* td as the filter of this text has to: the items that hold a match, in their
\* order, the others being recorded
FilterApplied(tv, det, td, text) ==
    LET full == ReattachLoop(tv, det)
        match(j) == \/ IsSubstr(text, Lower(treelabel(td[j])))
                    \/ IsSubstr(text, Lower(td[j].classname))
        shown(i) == \E j \in Subtree(full, i) : match(j)
    IN /\ Attached(tv) = {i \in tv.items : shown(i)}
       /\ \A n \in Attached(tv) \cup {Root} :
              tv.children[n] = SelectSeq(full.children[n], shown)
       /\ {det[k][1] : k \in 1..Len(det)} =
              {i \in tv.items : ~shown(i) /\ (full.parent[i] = Root \/ shown(full.parent[i]))}

\* C25: a copy, cut, paste, duplicate, delete, move up or down, grid move or
\* serialisation made while the filter entry holds a text t ends with the entry
\* holding t again, the treeview showing what the filter of t shows of the tree as
\* the handler left it, and the first item that was selected selected again if it
\* is still there; made with no filter active it ends with none active and with
\* no filter text remembered
C25_FilterBroughtBack ==
    [][idle = <<>> /\ trace'.op \in RestoringOps =>
          /\ filter_on =>
                 /\ filter_on' /\ filtervar' = filtervar
                 /\ filter_prev_value' = EmptyStr
                 /\ FilterApplied(treeview', _detached', treedata', filtervar)
                 /\ tv_selection(treeview) # <<>> /\ Anchor \in treeview'.items =>
                        Anchor \in Range(tv_selection(treeview'))
          /\ ~filter_on =>
                 /\ ~filter_on' /\ filtervar' = EmptyStr /\ _detached' = <<>>
                 /\ filter_prev_value' = EmptyStr]_vars

\* a grid move that moved a widget while the filter hid another
C25_Witness ==
    /\ trace.op = "grid_move" /\ trace.changed > 0
    /\ filter_on /\ HiddenItems # {}
    /\ tv_selection(treeview) # <<>>

\* the operation that ran from the state s1 to the state s2 left the filter aside:
\* none is active, no item is hidden and the remembered text is still remembered
FilterLeftAside(s1, s2) ==
    /\ ~s2.filter_on /\ s2.filtervar = EmptyStr /\ s2._detached = <<>>
    /\ s2.treeview.children = s1.treeview.children
    /\ s2.filter_prev_value = s1.filter_prev_value
    /\ s2.filter_prev_sitem = s1.filter_prev_sitem

\* C26: when a handler has set the filter aside with filter_remove(remember=True)
\* and then calls draw_widget (which calls tree_to_uidef), the filter_restore of
\* the inner operations does nothing: on return no filter is active, no item is
\* hidden and the text is still remembered for the handler's own filter_restore
C26_InnerRestoreNoOp ==
    filter_on =>
        \A item \in treeview.items :
            FilterLeftAside(filter_remove(Cur, TRUE),
                            draw_widget(filter_remove(Cur, TRUE), item))

\* C26, read for a handler that found no filter active: the inner operations
\* leave none active
C26_NoFilterNoRestore ==
    ~filter_on =>
        \A item \in treeview.items :
            FilterLeftAside(filter_remove(Cur, TRUE),
                            draw_widget(filter_remove(Cur, TRUE), item))

\* C27: a switch of the manager of the children of a container updates them with
\* update_event not listening, so that no child is redrawn and set_changed() is not
\* called for a child; when all are updated the preview is drawn once and
\* set_changed() is called once, and update_event listens again
C27_SwitchNotifiesOnce ==
    [][idle = <<>> /\ trace'.op = "container" =>
          /\ _listen_object_updates /\ _listen_object_updates'
          /\ SwitchesContainer => trace'.draws = 1 /\ trace'.changed = 1 /\ is_changed'
          /\ ~SwitchesContainer => trace'.draws = 0 /\ trace'.changed = 0]_vars

\* a switch that changed the manager of two children or more
C27_Witness ==
    /\ trace.op = "container" /\ trace.draws = 1 /\ trace.changed = 1
    /\ current_edit # Root /\ treeview.parent[current_edit] # Root
    /\ Len(treeview.children[treeview.parent[current_edit]]) >= 2
    /\ \A x \in Range(treeview.children[treeview.parent[current_edit]]) :
           treedata[x].manager = "pack"

\* C28: in every state the children of a container that do not use place, those
\* the filter hides included, have one and the same manager
C28_SiblingManagers ==
    \A p \in treeview.items :
        \A a, b \in Range(TrueChildren(p)) :
            treedata[a].manager # "place" /\ treedata[b].manager # "place" =>
                treedata[a].manager = treedata[b].manager

\* C28, read for the editor whose filter entry is left empty (SpecChanges)
C28_SiblingManagersShown ==
    ~filter_on /\ _detached = <<>> => C28_SiblingManagers

\* the children of the container p that grid manages and that have a row and a
\* column
OnGrid(p) ==
    {x \in Range(TrueChildren(p)) :
        /\ treedata[x].manager = "grid"
        /\ treedata[x].layout_properties.row # None
        /\ treedata[x].layout_properties.column # None}

\* C29: in every state the children of a container that grid manages are in cells
\* (row, column) that differ from one another
C29_DistinctGridCells ==
    \A p \in treeview.items :
        \A a, b \in OnGrid(p) :
            a # b => <<GridRow(a), GridColumn(a)>> # <<GridRow(b), GridColumn(b)>>

\* C29, read for the states that add, paste, duplicate, delete and the switch of
\* manager reach, no widget having been moved over the grid with the keys
C29_DistinctUntilMoved ==
    [][idle = <<>> /\ trace'.op # "grid_move" /\ C29_DistinctGridCells =>
          C29_DistinctGridCells']_vars

\* the manager of the children of the container p: that of its first child that
\* place does not manage, None when it has no such child
ChildrenManager(p) ==
    LET children == TrueChildren(p)
        det == {k \in 1..Len(children) : treedata[children[k]].manager # "place"}
    IN IF det = {} THEN None
       ELSE Some(treedata[children[CHOOSE k \in det : \A j \in det : k <= j]].manager)

\* the manager add gives to a widget it inserts under p
AdoptedManager(p) ==
    IF p # Root /\ ChildrenManager(p) # None THEN The(ChildrenManager(p))
    ELSE pref.default_layout_manager

\* the row add gives to a widget that grid manages: one past the highest row of
\* the children of p, 0 under a container without children and at the root
RowAfterLast(p) ==
    LET rows == {GridRow(x) : x \in Range(TrueChildren(p))}
    IN IF p = Root \/ rows = {} THEN 0
       ELSE (CHOOSE r \in rows : \A q \in rows : q <= r) + 1

\* C30: the widget an add inserts under a container has the manager of the
\* container's children (that of its first child that place does not manage)
\* when there is one and the default layout manager of the preferences
\* otherwise, as it has at the root; when that manager is grid its row is the
\* highest row of the children the container had plus 1, 0 for a container
\* without children and at the root, and its column is 0
C30_AddAdoptsManager ==
    [][idle = <<>> /\ trace'.op = "add" =>
          \A i \in NewItems :
              /\ treedata'[i].manager = AdoptedManager(treeview'.parent[i])
              /\ treedata'[i].manager = "grid" =>
                     /\ treedata'[i].layout_properties.row =
                            Some(RowAfterLast(treeview'.parent[i]))
                     /\ treedata'[i].layout_properties.column = Some(0)]_vars

\* a widget added under a container whose children have a manager that is not
\* the default one: it is on the grid in the row after that of its sibling
C30_Witness ==
    /\ trace.op = "add" /\ trace.changed = 1 /\ idle # <<>>
    /\ LET i == treeview.next - 1
       IN /\ i \in treeview.items /\ treeview.parent[i] # Root
          /\ treedata[i].manager = "grid" /\ pref.default_layout_manager = "pack"
          /\ treedata[i].layout_properties.row # None
          /\ The(treedata[i].layout_properties.row) >= 1
          /\ treedata[i].layout_properties.column = Some(0)

\* a widget added under a container whose only child is managed by place: it
\* has the default layout manager
C30_AfterPlace ==
    /\ trace.op = "add" /\ trace.changed = 1 /\ idle # <<>>
    /\ LET i == treeview.next - 1
       IN /\ i \in treeview.items /\ treeview.parent[i] # Root
          /\ \E x \in Range(TrueChildren(treeview.parent[i])) :
                 x # i /\ treedata[x].manager = "place"
          /\ treedata[i].manager = pref.default_layout_manager

\* the names the tree holds as a paste or a duplicate begins
NamesBefore == {f[4] : f \in NamedEntities}

\* C31: no identifier, variable name, command name or handler name of a widget
\* that a paste or a duplicate inserts, outer or nested, equals a name the tree
\* held before the paste: every name of the fragment that collides is replaced
C31_PastedNamesFresh ==
    [][idle = <<>> /\ trace'.op \in {"paste", "duplicate"} =>
          \A e \in NamedEntities' : e[2] \in NewItems => e[4] \notin NamesBefore]_vars

\* C31, read for the identifiers of the inserted widgets against the
\* identifiers the tree held
C31_PastedIdentifiersFresh ==
    [][idle = <<>> /\ trace'.op \in {"paste", "duplicate"} =>
          \A e \in NamedEntities' :
              e[2] \in NewItems /\ e[1] = "identifier" =>
                  \A f \in NamedEntities : f[1] = "identifier" => f[4] # e[4]]_vars

\* the selected items and all they hold, hidden by the filter or not
SelectedSubtrees ==
    UNION {Subtree(ReattachLoop(treeview, _detached), a) : a \in Selected}

\* C32: a delete removes every selected item with all it holds from the tree and
\* from treedata, also when an item and one of its descendants are both
\* selected: the descendant, gone with its ancestor when its turn comes, is
\* passed over, nothing is raised and the selected items after it are deleted
C32_BatchDelete ==
    [][idle = <<>> /\ trace'.op = "delete" =>
          /\ trace'.raised = "none"
          /\ \A x \in SelectedSubtrees :
                 /\ x \notin treeview'.items
                 /\ treedata'[x] = NoData
                 /\ \A k \in 1..Len(_detached') : _detached'[k][1] # x
          /\ \A x \in treeview.items \ SelectedSubtrees :
                 x \in treeview'.items /\ treedata'[x] = treedata[x]]_vars

\* a delete of three selected items, the second of them held by the first and
\* the third held by neither: all three are gone
C32_Witness ==
    /\ trace.op = "delete" /\ trace.raised = "none" /\ trace.changed = 2
    /\ Cardinality(trace.before.selection) = 3
    /\ \E a, b, c \in trace.before.selection :
           /\ b \in Range(trace.before.children[a])
           /\ c \in Range(trace.before.children[Root]) /\ c # a
           /\ PosIn(trace.before.children[Root], a) < PosIn(trace.before.children[Root], c)
    /\ \A x \in trace.before.selection : x \notin treeview.items /\ treedata[x] = NoData

\* the identifiers of the selected items and of all they hold
SelectedIdentifiers == {treedata[x].identifier : x \in SelectedSubtrees}

\* C33: a delete, and the delete of a cut, take the record of every selected item
\* and of all it holds out of treedata, and is_id_unique accepts again every
\* identifier of theirs that no widget left in the document carries as a name,
\* whether or not the filter entry held a text; a paste that follows the cut and
\* inserts every outer widget of the clipboard gives the identifiers of the cut
\* widgets to the widgets it inserts
C33_DeleteReleasesNames ==
    [][idle = <<>> =>
          /\ trace'.op \in {"delete", "cut"} =>
                 /\ \A x \in SelectedSubtrees : treedata'[x] = NoData
                 /\ \A id \in SelectedIdentifiers :
                        (\A e \in NamedEntities' : e[4] # id) => is_id_unique(Cur, id)'
          /\ trace.op = "cut" /\ trace.changed > 0
             /\ trace'.op = "paste" /\ clipboard.kind = "xml"
             /\ Len(trace'.pasted) = Len(widgets(clipboard.doc)) =>
                 {clipboard.doc[k].id : k \in 1..Len(clipboard.doc)}
                     \subseteq {treedata'[i].identifier : i \in NewItems}]_vars

\* a paste, the filter hiding another widget, of a widget that was cut: it is
\* inserted again under the identifier it had, which no other widget has
C33_Repasted ==
    /\ trace.op = "paste" /\ trace.raised = "none" /\ Len(trace.pasted) = 1
    /\ filter_on /\ \E k \in 1..Len(_detached) : _detached[k][1] # trace.pasted[1].item
    /\ clipboard.kind = "xml" /\ Len(clipboard.doc) = 1
    /\ treedata[trace.pasted[1].item].identifier = clipboard.doc[1].id
    /\ trace.pasted[1].item = treeview.next - 1
    /\ \A i \in treeview.items :
           i # trace.pasted[1].item => treedata[i].identifier # clipboard.doc[1].id

\* a cut made while the filter hid a widget: the identifier of the widget that
\* was cut is unique again
C33_Witness ==
    /\ trace.op = "cut" /\ trace.changed > 0 /\ filter_on /\ _detached # <<>>
    /\ clipboard.kind = "xml" /\ clipboard.doc # <<>>
    /\ \A k \in 1..Len(clipboard.doc) : is_id_unique(Cur, clipboard.doc[k].id)

\* C33 for the deletes that remove all that was selected: a Delete, and a Cut
\* made with no filter active or with one widget selected
C33_DeleteProperReleasesNames ==
    [][/\ idle = <<>>
       /\ \/ trace'.op = "delete"
          \/ trace'.op = "cut" /\ (~filter_on \/ Len(tv_selection(treeview)) = 1)
       => /\ \A x \in SelectedSubtrees : treedata'[x] = NoData
          /\ \A id \in SelectedIdentifiers :
                 (\A e \in NamedEntities' : e[4] # id) => is_id_unique(Cur, id)']_vars

\* the document of item x in the state s is that of item y in the state r but
\* for the identifiers generated anew and, when outer is set, for the row of
\* the outer widget
CopyOf(s, x, r, y, outer) ==
    LET copy == build_uidefinition(s, <<x>>, 0, 0)
        orig == build_uidefinition(r, <<y>>, 0, 0)
    IN /\ Len(copy) = Len(orig)
       /\ \A k \in 1..Len(orig) :
              /\ copy[k].class = orig[k].class
              /\ copy[k].up = orig[k].up
              /\ copy[k].manager = orig[k].manager
              /\ copy[k].properties = orig[k].properties
              /\ copy[k].bind = orig[k].bind
              /\ copy[k].layout.column = orig[k].layout.column
              /\ (k > 1 \/ ~outer) => copy[k].layout = orig[k].layout

\* the widgets that were there are as they were: their data, their parents and
\* the order of the children of every item, the children of the item p being
\* followed by n new ones
OriginalsKept(p, n) ==
    /\ \A i \in treeview.items : treedata'[i] = treedata[i] /\ i \in treeview'.items
    /\ \A q \in Nodes :
           LET old == TrueChildren(q)
               new == ReattachLoop(treeview', _detached').children[q]
           IN IF q = p THEN Len(new) = Len(old) + n /\ SubSeq(new, 1, Len(old)) = old
              ELSE q \in treeview.items \cup {Root} => new = old

WithCopies(n) ==
    [Unfiltered EXCEPT !.treeview.children[DuplicateAnchor] =
        SubSeq(ReattachLoop(treeview', _detached').children[DuplicateAnchor], 1,
               Len(TrueChildren(DuplicateAnchor)) + n)]

\* the selected widgets q that pass _validate_add against their parent when
\* their turn comes, n copies having been inserted before
RECURSIVE AcceptedCopies(_, _)
AcceptedCopies(q, n) ==
    IF q = <<>> THEN <<>>
    ELSE IF _validate_add(WithCopies(n), DuplicateAnchor, treedata[Head(q)].classname)
         THEN <<Head(q)>> \o AcceptedCopies(Tail(q), n + 1)
         ELSE AcceptedCopies(Tail(q), n)

C34_Rejected ==
    /\ trace.op = "duplicate" /\ trace.raised = "none" /\ trace.changed = 0
    /\ Cardinality(trace.before.selection) = 1
    /\ \A a \in trace.before.selection :
           /\ treeview.parent[a] # Root
           /\ treedata[treeview.parent[a]].classname = ScrollbarHelper
    /\ trace.before.children = treeview.children

\* the children of every item after the items of the triples q (item, parent,
\* index) were put, one after the other in the order of q, under their parent
\* at their index, or after its last child when it has fewer children
RECURSIVE PutBack(_, _)
PutBack(ch, q) ==
    IF q = <<>> THEN ch
    ELSE LET item == Head(q)[1]
             p == Head(q)[2]
             idx == Head(q)[3]
             without == [n \in DOMAIN ch |-> SelectSeq(ch[n], LAMBDA x : x # item)]
             at == IF idx < Len(without[p]) THEN idx ELSE Len(without[p])
             put == SubSeq(without[p], 1, at) \o <<item>>
                        \o SubSeq(without[p], at + 1, Len(without[p]))
         IN PutBack([without EXCEPT ![p] = put], Tail(q))

\* the filter entry is emptied while a filter is active
ClearsFilter == idle = <<>> /\ filter_on /\ trace'.op = "filter_by" /\ filtervar' = EmptyStr

\* C35: emptying the filter entry puts every recorded item back under its
\* remembered parent at its remembered index, the item detached last first and
\* the item detached first last, and then empties the record
C35_ReattachLastFirst ==
    [][ClearsFilter =>
          /\ treeview'.children = PutBack(treeview.children, Reverse(_detached))
          /\ _detached' = <<>>]_vars

\* C35, the items taken in the order in which they were detached: emptying the
\* filter entry puts every recorded item back under its remembered parent at
\* its remembered index, the item detached first first, and then empties the
\* record
C35_ReattachFirstFirst ==
    [][ClearsFilter =>
          /\ treeview'.children = PutBack(treeview.children, _detached)
          /\ \A k \in 1..Len(_detached) :
                 treeview'.parent[_detached[k][1]] = _detached[k][2]
          /\ _detached' = <<>>]_vars

\* a filter that hid the first two of three siblings has been emptied: the three
\* are in their order again
C35_Witness ==
    /\ FilterRoundTrip /\ _detached = <<>>
    /\ \E p \in Nodes :
           /\ Len(treeview.children[p]) = 3
           /\ treeview.children[p][1] \in trace.before.hidden
           /\ treeview.children[p][2] \in trace.before.hidden
           /\ treeview.children[p][3] \notin trace.before.hidden
           /\ treeview.children[p] = trace.before.children[p]

\* the document a paste or a duplicate is about to insert
Incoming ==
    IF trace'.op = "duplicate" THEN TrueDocument(tv_selection(treeview))
    ELSE IF clipboard.kind = "xml" THEN clipboard.doc
    ELSE <<>>

\* a paste or a duplicate inserts every widget of its document: the k-th node
\* of the document becomes the item treeview.next + k - 1
InsertsAll ==
    /\ idle = <<>> /\ trace'.op \in {"paste", "duplicate"}
    /\ Incoming # <<>> /\ Cardinality(NewItems) = Len(Incoming)

\* C36: of the widgets a paste or a duplicate inserts only the outer ones can
\* have their row changed: the column of an outer widget, and the row and the
\* column of every widget it holds, are those of the document, also when two
\* widgets held by one pasted widget are in the same cell
C36_OnlyOuterRowChanges ==
    [][InsertsAll =>
          \A k \in 1..Len(Incoming) :
              LET data == treedata'[treeview.next + k - 1]
              IN /\ data.layout_properties.column = Incoming[k].layout.column
                 /\ Incoming[k].up # 0 => data.layout_properties = Incoming[k].layout]_vars

\* C36, with the manager of an outer widget set to that of its new siblings:
\* every widget held by a pasted or duplicated widget keeps its manager, its row
\* and its column, also when two of them are in the same cell; an outer widget
\* that keeps its manager keeps its column, and only its row can change; an
\* outer widget whose manager update_layout changes loses its row and its column
C36_NestedLayoutKept ==
    [][InsertsAll =>
          \A k \in 1..Len(Incoming) :
              LET data == treedata'[treeview.next + k - 1]
              IN /\ Incoming[k].up # 0 =>
                        /\ data.manager = Incoming[k].manager
                        /\ data.layout_properties = Incoming[k].layout
                 /\ Incoming[k].up = 0 /\ data.manager = Incoming[k].manager =>
                        data.layout_properties.column = Incoming[k].layout.column
                 /\ Incoming[k].up = 0 /\ data.manager # Incoming[k].manager =>
                        data.layout_properties = NoLayout]_vars

\* a paste under a frame of a frame that holds two buttons in one cell: the
\* pasted frame got another row, the buttons are in their cell
C36_Witness ==
    /\ trace.op = "paste" /\ trace.raised = "none" /\ Len(trace.pasted) = 1
    /\ clipboard.kind = "xml" /\ Len(clipboard.doc) = 3
    /\ LET i == trace.pasted[1].item
       IN /\ trace.pasted[1].parent # Root
          /\ treedata[i].manager = "grid"
          /\ treedata[i].layout_properties.row # clipboard.doc[1].layout.row
          /\ treedata[i].layout_properties.column = clipboard.doc[1].layout.column
          /\ Len(treeview.children[i]) = 2
          /\ \A x \in Range(treeview.children[i]) :
                 treedata[x].layout_properties = [row |-> Some(1), column |-> Some(1)]

\* C37: an add made while the filter entry holds a text t, accepted or rejected,
\* ends like the other operations that change the tree: the entry holds t again
\* and the treeview shows what the filter of t shows of the tree the add left
C37_AddRestoresFilter ==
    [][idle = <<>> /\ trace'.op = "add" /\ filter_on =>
          /\ filter_on' /\ filtervar' = filtervar
          /\ FilterApplied(treeview', _detached', treedata', filtervar)]_vars

\* C37, read for what add_widget does: it works on the whole tree and, accepted
\* or rejected, ends with the filter entry empty, no filter active and every
\* item shown
C37_AddRemovesFilter ==
    [][idle = <<>> /\ trace'.op = "add" /\ filter_on =>
          /\ ~filter_on' /\ filtervar' = EmptyStr /\ _detached' = <<>>
          /\ filter_prev_value' = EmptyStr
          /\ \A n \in treeview.items \cup {Root} :
                 SubSeq(treeview'.children[n], 1, Len(TrueChildren(n))) = TrueChildren(n)]_vars

\* the sequence q with its elements at the positions j and k exchanged
Exchanged(q, j, k) ==
    [n \in 1..Len(q) |-> IF n = j THEN q[k] ELSE IF n = k THEN q[j] ELSE q[n]]

\* the children of every item, hidden or not, after the step
TrueChildrenAfter == ReattachLoop(treeview', _detached').children

\* the editor after Move Up and then Move Down of the selected items
UpThenDown ==
    LET up == Dispatch(on_item_move(StartTrace(Cur, "move_up"), TRUE))
        down(s) == Dispatch(on_item_move(StartTrace(s, "move_down"), FALSE))
    IN [up |-> up, down |-> down(up)]

\* C38: Move Up (Move Down) exchanges the first selected item with the sibling
\* before (after) it in the order of all children of its parent, those the
\* filter hides included, and changes nothing else: no item gets another parent
\* and no item other children; at the first (last) place it changes nothing and
\* does not call set_changed(); and Move Up followed by Move Down of the same
\* item restores the order
C38_MoveExchangesSiblings ==
    /\ [](Ready /\ tv_selection(treeview) # <<>> =>
            LET both == UpThenDown
            IN both.up.trace.changed > 0 =>
                   ReattachLoop(both.down.treeview, both.down._detached).children
                       = TrueTree.children)
    /\ [][idle = <<>> /\ trace'.op \in {"move_up", "move_down"}
          /\ tv_selection(treeview) # <<>> =>
             LET p == treeview.parent[Anchor]
                 q == TrueChildren(p)
                 k == PosIn(q, Anchor)
                 other == IF trace'.op = "move_up" THEN k - 1 ELSE k + 1
             IN /\ treeview'.items = treeview.items
                /\ treedata' = treedata
                /\ \A i \in treeview.items :
                       ReattachLoop(treeview', _detached').parent[i]
                           = ReattachLoop(treeview, _detached).parent[i]
                /\ \A n \in Nodes : n # p => TrueChildrenAfter[n] = TrueChildren(n)
                /\ IF other \in 1..Len(q)
                   THEN TrueChildrenAfter[p] = Exchanged(q, k, other) /\ trace'.changed = 1
                   ELSE /\ TrueChildrenAfter[p] = q /\ trace'.changed = 0
                        /\ is_changed' = is_changed]_vars

\* a Move Down of the second of three siblings while the filter hid the third
C38_Witness ==
    /\ trace.op = "move_down" /\ trace.changed = 1 /\ filter_on
    /\ tv_selection(treeview) # <<>>
    /\ LET q == TrueChildren(treeview.parent[Anchor])
       IN /\ Len(q) = 3 /\ q[3] = Anchor
          /\ q[2] \in HiddenItems

\* C39, the invariant: no two widgets of the document have the same identifier
C39_DistinctIdentifiers ==
    \A a, b \in treeview.items : a # b => treedata[a].identifier # treedata[b].identifier

\* the identifiers in use before the step, those of hidden widgets included
IdentifiersBefore == {treedata[i].identifier : i \in treeview.items}

\* the k-th widget of doc became the item treeview.next + k - 1: its identifier is
\* the one of the document unless a widget of the tree before the step (used) or
\* an earlier widget of doc has it, and then it is a generated one nobody has
Identified(doc, used) ==
    \A k \in 1..Len(doc) :
        LET id == treedata'[treeview.next + k - 1].identifier
            taken == used \cup {treedata'[treeview.next + j - 1].identifier : j \in 1..(k - 1)}
        IN IF doc[k].id \in taken
           THEN /\ id \notin taken
                /\ \E n \in 1..(2 * MaxIds) : id = _generate_id(Cur, doc[k].class, n)
           ELSE id = doc[k].id

\* C39: after every add, paste, duplicate, cut, delete and load no two widgets of
\* the tree have the same identifier; a pasted, duplicated or loaded widget, at
\* any depth, whose identifier a widget of the tree or a widget inserted earlier
\* by the same operation has, gets a generated identifier, and an identifier
\* nobody has is kept
C39_IdentifiersUnique ==
    /\ []C39_DistinctIdentifiers
    /\ [][/\ InsertsAll => Identified(Incoming, IdentifiersBefore)
          /\ \A text \in IdentifierTexts :
                 Load(text) /\ trace'.raised = "none" => Identified(text.doc, {})]_vars

\* the two widgets of a document that gives both the identifier frame1 were
\* pasted into an empty tree: the second one is frame2
C39_Witness ==
    /\ trace.op = "paste" /\ trace.raised = "none" /\ clipboard = XmlText(DocTwins)
    /\ treeview.items = {1, 2}
    /\ treedata[1].identifier = <<"frame", "1">>
    /\ treedata[2].identifier = <<"frame", "2">>

\* a document with the identifier frame1 twice was loaded
C39_LoadedTwins ==
    /\ trace.op = "load" /\ trace.raised = "none"
    /\ \E i, j \in treeview.items :
           /\ treedata[i].identifier = <<"frame", "1">>
           /\ treedata[j].identifier = <<"frame", "2">>

\* no duplicate is under way: the flag is down and nothing is held in memory
DuplicateOver == ~duplicating /\ virtual_clipboard_for_duplicate = NoText

\* C40: between the operations of the user duplicating is false and
\* virtual_clipboard_for_duplicate is empty, a paste resetting them whether it
\* inserted widgets, rejected every fragment, found a text that is no document
\* or raised; so a Copy always writes the document of the selection to the
\* system clipboard, and a Paste always inserts the widgets of the system
\* clipboard, and no others, under the first selected item or at the root
C40_DuplicateOverBetweenOperations ==
    /\ []DuplicateOver
    /\ [][/\ trace'.op = "copy" /\ tv_selection(treeview) # <<>> =>
                 clipboard' = XmlText(TrueDocument(tv_selection(treeview)))
          /\ trace'.op = "paste" =>
                 /\ \A i \in NewItems : treeview'.parent[i] \in NewItems \cup {Anchor}
                 /\ clipboard.kind # "xml" => NewItems = {}
                 /\ \A i \in NewItems :
                        \E k \in 1..Len(clipboard.doc) :
                            treedata'[i].classname = clipboard.doc[k].class]_vars

\* a duplicate inserted widgets while the system clipboard held a text that is
\* no document, and it is over
C40_Witness ==
    /\ trace.op = "duplicate" /\ trace.changed > 0 /\ trace.raised = "none"
    /\ clipboard = GarbageText
    /\ DuplicateOver

\* a paste raised, one found a text that is no document, one rejected every fragment
C40_PasteRaised == trace.op = "paste" /\ trace.raised # "none" /\ DuplicateOver
C40_PasteUnparsable ==
    trace.op = "paste" /\ clipboard = GarbageText /\ trace.changed = 0 /\ DuplicateOver
C40_PasteRejected ==
    /\ trace.op = "paste" /\ clipboard = XmlText(DocMisplaced) /\ trace.raised = "none"
    /\ trace.changed = 0 /\ DuplicateOver

====
